---- MODULE Spec2Model ----
(***************************************************************************)
(* State-machine model of the Mafia game orchestration core:               *)
(*   GameState        (src/mafia/game_state.py)                            *)
(*   Player           (src/llm_games/mafia/player.py)                      *)
(*   Role classes     (src/mafia/mechanics/roles.py)                       *)
(*   MafiaEnvironment (src/llm_games/mafia/environment.py)                 *)
(*                                                                         *)
(* The whole object graph (environment, game state, players) is one record *)
(* `env`; every Python method is an operator from record to record, so a   *)
(* handler that calls other methods is the composition of their operators. *)
(* Player names are the integers 1..n in registration order (which is also *)
(* their alphabetical order); NoName is Python's None, Unknown is a name   *)
(* that belongs to no player, System is the sender "system".               *)
(*                                                                         *)
(* The two logs are append-only and never read back except by              *)
(* _check_discussion_end, so the record keeps, for each log, the entries   *)
(* appended by the operation that ran last (env.messages, env.hidden_log)  *)
(* and the aggregate _check_discussion_end computes from the hidden log    *)
(* (env.turn_counts, saturating at min_discussion_turns).                  *)
(*                                                                         *)
(* question_speeches is a history variable, not program state: for each    *)
(* player, how many speeches of the current day carried question tags that *)
(* named a target the player had not asked yet.  today is another: turns,  *)
(* for each player, how many actions of the player process_player_action   *)
(* accepted in the discussion of the current day (counted up to            *)
(* min_discussion_turns), and passes, how many of the latest accepted      *)
(* actions of that discussion were passes in a row; it is kept in the      *)
(* games whose set-up says count_turns.                                    *)
(***************************************************************************)
EXTENDS Integers, Sequences, FiniteSets, TLC

VARIABLES env, setup, last, nops, nkills, question_speeches, today

vars == <<env, setup, last, nops, nkills, question_speeches, today>>

----------------------------------------------------------------------------
(* Bounds of the exploration *)

\* step_phase is not explored from NIGHT once day_count has reached MaxDay
\* (plus the days of the game's set-up)
MaxDay == 1
\* process_player_action calls explored per game
MaxOps == 3
\* effective direct kill_player calls by the driver explored per game
MaxDirectKills == 1

----------------------------------------------------------------------------
(* Names, enums *)

NoName == 0
Unknown == 8
System == 9

TOWN == "town"
MAFIA == "mafia"
NoFaction == "none"

NIGHT == "NIGHT"
DAY_DISCUSSION == "DAY_DISCUSSION"
VOTING == "VOTING"
DEFENSE == "DEFENSE"
FINAL_VOTE == "FINAL_VOTE"
GAME_OVER == "GAME_OVER"

min_discussion_turns == 2
\* max_steps of run_simulation
max_steps == 100

RoleFaction(r) ==
    IF r \in {"Villager", "Cop", "Doctor"} THEN TOWN ELSE MAFIA

RoleCanActAtNight(r) ==
    r \in {"Cop", "Doctor", "Godfather", "RoleBlocker", "Consigliere"}

----------------------------------------------------------------------------
(* Generic helpers *)

Players(s) == DOMAIN s.role

Min(a, b) == IF a < b THEN a ELSE b

RECURSIVE SortedSeq(_)
\* sorted(set): ascending sequence of a finite set of names
SortedSeq(S) ==
    IF S = {} THEN <<>>
    ELSE LET m == CHOOSE x \in S : \A y \in S : x <= y
         IN  <<m>> \o SortedSeq(S \ {m})

\* Python dict get with default
Get(f, k, d) == IF k \in DOMAIN f THEN f[k] ELSE d

\* Python dict item assignment
Put(f, k, v) == [x \in DOMAIN f \cup {k} |-> IF x = k THEN v ELSE f[x]]

\* Python del f[k]
Del(f, k) == [x \in DOMAIN f \ {k} |-> f[x]]

EmptyDict == [x \in {} |-> 0]

\* Content of an action: has = truthy; q = the names inside <question> tags, in
\* order; acc = the name inside the first <accuse> tag (NoName: no such tag);
\* words = the text itself
NoContent == [has |-> FALSE, q |-> <<>>, acc |-> NoName, words |-> ""]

\* An element of state.messages.  class is the Python class of the object: the
\* GameMessage of game_state.py, the GameMessage of mechanics/messaging.py
\* (another class) or str.  recipients is always None (NoName): no caller
\* passes any.
Msg(type, sender, text, arg) ==
    [class |-> "GameMessage", msg_type |-> type, sender |-> sender,
     recipients |-> NoName, text |-> text, arg |-> arg,
     names |-> {}, content |-> NoContent]

Hid(actor, info, arg) == [actor |-> actor, info |-> info, arg |-> arg]

----------------------------------------------------------------------------
(* GameState: logging *)

log_message(s, sender, text, arg, type) ==
    [s EXCEPT !.messages = Append(@, Msg(type, sender, text, arg))]

\* Raw strings appended to state.messages by Player methods
append_raw(s, sender, text, arg) ==
    [s EXCEPT !.messages = Append(@, [Msg("raw", sender, text, arg)
                                         EXCEPT !.class = "str"]),
              !.unreadable = Min(@ + 1, min_discussion_turns)]

log_hidden(s, actor, info, arg) ==
    [s EXCEPT !.hidden_log = Append(@, Hid(actor, info, arg)),
              !.turn_counts =
                  IF s.phase = DAY_DISCUSSION /\ actor \in Players(s)
                  THEN [@ EXCEPT ![actor] = Min(@ + 1, min_discussion_turns)]
                  ELSE @]

----------------------------------------------------------------------------
(* Player: state resets *)

reset_night_state(s, P) ==
    [s EXCEPT !.night_target = [p \in Players(s) |-> IF p \in P THEN NoName ELSE @[p]],
              !.is_roleblocked = [p \in Players(s) |-> IF p \in P THEN FALSE ELSE @[p]],
              !.protected_by = [p \in Players(s) |-> IF p \in P THEN NoName ELSE @[p]]]

reset_day_state(s, P) ==
    [s EXCEPT !.vote = [p \in Players(s) |-> IF p \in P THEN NoName ELSE @[p]],
              !.has_accused_today = [p \in Players(s) |-> IF p \in P THEN FALSE ELSE @[p]],
              !.questions_asked_today = [p \in Players(s) |-> IF p \in P THEN {} ELSE @[p]],
              !.whispers_sent_today =
                  [p \in Players(s) |-> IF p \in P THEN EmptyDict ELSE @[p]],
              !.can_speak_today = [p \in Players(s) |-> IF p \in P THEN TRUE ELSE @[p]]]

----------------------------------------------------------------------------
(* GameState: end of game, deaths, succession *)

mafia_alive(s) == {p \in Players(s) : s.alive[p] /\ s.faction[p] = MAFIA}

town_alive(s) == {p \in Players(s) : s.alive[p] /\ s.faction[p] = TOWN}

\* Variant: Mafia needs a strict majority
DecideWinner_strict(s) ==
    IF mafia_alive(s) = {} THEN TOWN
    ELSE IF Cardinality(mafia_alive(s)) > Cardinality(town_alive(s)) THEN MAFIA
    ELSE NoFaction

DecideWinner(s) ==
    IF mafia_alive(s) = {} THEN TOWN
    ELSE IF Cardinality(mafia_alive(s)) >= Cardinality(town_alive(s)) THEN MAFIA
    ELSE NoFaction

\* Variant: the game's end is decided anew on every call
check_game_end_again(s) ==
    LET winner == DecideWinner(s) IN
    IF winner # NoFaction
    THEN LET s1 == [s EXCEPT !.game_over = TRUE,
                             !.winner = winner,
                             !.phase = GAME_OVER,
                             !.final_player_roles = s.role]
             s2 == log_message(s1, System, "game_over", NoName, "system")
         IN  log_hidden(s2, System, "final_roles", NoName)
    ELSE s

check_game_end(s) ==
    IF s.game_over THEN s
    ELSE LET winner == DecideWinner(s) IN
         IF winner # NoFaction
         THEN LET s1 == [s EXCEPT !.game_over = TRUE,
                                  !.winner = winner,
                                  !.phase = GAME_OVER,
                                  !.final_player_roles = s.role]
                  s2 == log_message(s1, System, "game_over", NoName, "system")
              IN  log_hidden(s2, System, "final_roles", NoName)
         ELSE s

AliveGoons(s) == {p \in Players(s) : p \in s.alive_players /\ s.role[p] = "Goon"}

\* Variant: the last alive Goon in registration order is promoted
\* Variant: every alive Goon is promoted
promote_every_goon(s, dead_gf_name) ==
    IF AliveGoons(s) # {}
    THEN LET promoted_goon == CHOOSE p \in AliveGoons(s) : \A q \in AliveGoons(s) : p <= q
             s1 == [s EXCEPT
                      !.role = [p \in DOMAIN @ |->
                                  IF p \in AliveGoons(s) THEN "Godfather" ELSE @[p]],
                      !.faction[promoted_goon] = RoleFaction("Godfather")]
             s2 == log_message(s1, System, "promoted", promoted_goon, "system")
         IN  log_hidden(s2, promoted_goon, "promoted_after", dead_gf_name)
    ELSE log_hidden(s, System, "no_goon_to_promote", dead_gf_name)

promote_last_goon(s, dead_gf_name) ==
    IF AliveGoons(s) # {}
    THEN LET promoted_goon == CHOOSE p \in AliveGoons(s) : \A q \in AliveGoons(s) : p >= q
             s1 == [s EXCEPT !.role[promoted_goon] = "Godfather",
                             !.faction[promoted_goon] = RoleFaction("Godfather")]
             s2 == log_message(s1, System, "promoted", promoted_goon, "system")
         IN  log_hidden(s2, promoted_goon, "promoted_after", dead_gf_name)
    ELSE log_hidden(s, System, "no_goon_to_promote", dead_gf_name)

promote_goon_to_gf(s, dead_gf_name) ==
    IF AliveGoons(s) # {}
    THEN LET promoted_goon == CHOOSE p \in AliveGoons(s) : \A q \in AliveGoons(s) : p <= q
             s1 == [s EXCEPT !.role[promoted_goon] = "Godfather",
                             !.faction[promoted_goon] = RoleFaction("Godfather")]
             s2 == log_message(s1, System, "promoted", promoted_goon, "system")
         IN  log_hidden(s2, promoted_goon, "promoted_after", dead_gf_name)
    ELSE log_hidden(s, System, "no_goon_to_promote", dead_gf_name)

\* Variant: the Player's alive flag is left set
kill_player_keeps_flag(s, name, reason) ==
    IF name \notin s.alive_players THEN s
    ELSE IF name \notin Players(s) THEN s
    ELSE LET s1 == [s EXCEPT !.alive_players = @ \ {name},
                             !.dead_players = @ \cup {name}]
             s2 == log_message(s1, System, reason, name, "death_announcement")
             s3 == log_hidden(s2, System, "died", name)
             succession(d) == IF s.role[name] = "Godfather"
                              THEN promote_goon_to_gf(d, name)
                              ELSE d
         IN  check_game_end(succession(s3))

\* Variant: no early return for a name that is not alive
kill_player_unguarded(s, name, reason) ==
    IF name \notin Players(s) THEN s
    ELSE LET s1 == [s EXCEPT !.alive_players = @ \ {name},
                             !.dead_players = @ \cup {name},
                             !.alive[name] = FALSE]
             s2 == log_message(s1, System, reason, name, "death_announcement")
             s3 == log_hidden(s2, System, "died", name)
             succession(d) == IF s.role[name] = "Godfather"
                              THEN promote_goon_to_gf(d, name)
                              ELSE d
         IN  check_game_end(succession(s3))

\* Variant: the win condition is not looked at after the death
kill_player_unchecked(s, name, reason) ==
    IF name \notin s.alive_players THEN s
    ELSE IF name \notin Players(s) THEN s
    ELSE LET s1 == [s EXCEPT !.alive_players = @ \ {name},
                             !.dead_players = @ \cup {name},
                             !.alive[name] = FALSE]
             s2 == log_message(s1, System, reason, name, "death_announcement")
             s3 == log_hidden(s2, System, "died", name)
             succession(d) == IF s.role[name] = "Godfather"
                              THEN promote_goon_to_gf(d, name)
                              ELSE d
         IN  succession(s3)

kill_player(s, name, reason) ==
    IF name \notin s.alive_players THEN s
    ELSE IF name \notin Players(s) THEN s
    ELSE LET s1 == [s EXCEPT !.alive_players = @ \ {name},
                             !.dead_players = @ \cup {name},
                             !.alive[name] = FALSE]
             s2 == log_message(s1, System, reason, name, "death_announcement")
             s3 == log_hidden(s2, System, "died", name)
             succession(d) == IF s.role[name] = "Godfather"
                              THEN promote_goon_to_gf(d, name)
                              ELSE d
         IN  check_game_end(succession(s3))

----------------------------------------------------------------------------
(* GameState: phase resets, accusation tally *)

reset_night_phase_state(s) ==
    LET s1 == [s EXCEPT !.night_actions_submitted = <<>>,
                        !.night_action_results = EmptyDict,
                        !.turn_number_in_phase = 0,
                        !.current_player_turn = NoName]
    IN  reset_night_state(s1, s.alive_players \cap Players(s))

reset_day_phase_state(s) ==
    LET s1 == [s EXCEPT !.votes_for_accusation = EmptyDict,
                        !.accusation_counts = EmptyDict,
                        !.player_on_trial = NoName,
                        !.votes_for_lynch = EmptyDict,
                        !.turn_number_in_phase = 0,
                        !.current_player_turn = NoName]
    IN  reset_day_state(s1, s.alive_players \cap Players(s))

\* Variant: the old target's count is not decremented
update_vote_counts_no_decrement(s, voter, old_target, new_target) ==
    [s EXCEPT !.accusation_counts =
                  Put(@, new_target, Get(@, new_target, 0) + 1),
              !.votes_for_accusation = Put(@, voter, new_target)]

update_vote_counts(s, voter, old_target, new_target) ==
    LET c1 == IF old_target # NoName /\ old_target \in DOMAIN s.accusation_counts
              THEN IF s.accusation_counts[old_target] - 1 <= 0
                   THEN Del(s.accusation_counts, old_target)
                   ELSE Put(s.accusation_counts, old_target,
                            s.accusation_counts[old_target] - 1)
              ELSE s.accusation_counts
        c2 == Put(c1, new_target, Get(c1, new_target, 0) + 1)
    IN  [s EXCEPT !.accusation_counts = c2,
                  !.votes_for_accusation = Put(@, voter, new_target)]

----------------------------------------------------------------------------
(* Construction: Player.__init__, MafiaEnvironment.__init__,               *)
(* GameState.initialize                                                    *)

NewEnv(cfg) ==
    LET P == DOMAIN cfg.roles
        s0 == [ role |-> [p \in P |-> cfg.roles[p]],
                faction |-> [p \in P |-> RoleFaction(cfg.roles[p])],
                alive |-> [p \in P |-> TRUE],
                night_target |-> [p \in P |-> NoName],
                is_roleblocked |-> [p \in P |-> FALSE],
                protected_by |-> [p \in P |-> NoName],
                vote |-> [p \in P |-> NoName],
                has_accused_today |-> [p \in P |-> FALSE],
                can_speak_today |-> [p \in P |-> TRUE],
                questions_asked_today |-> [p \in P |-> {}],
                whispers_sent_today |-> [p \in P |-> EmptyDict],
                memory |-> [p \in P |-> {}],
                phase |-> NIGHT,
                day_count |-> 0,
                turn_number_in_phase |-> 0,
                current_player_turn |-> NoName,
                turn_context |-> NoName,
                alive_players |-> P,
                dead_players |-> {},
                messages |-> <<>>,
                unreadable |-> 0,
                hidden_log |-> <<>>,
                turn_counts |-> [p \in P |-> 0],
                votes_for_accusation |-> EmptyDict,
                accusation_counts |-> EmptyDict,
                player_on_trial |-> NoName,
                votes_for_lynch |-> EmptyDict,
                night_actions_submitted |-> <<>>,
                night_action_results |-> EmptyDict,
                game_over |-> FALSE,
                winner |-> NoFaction,
                final_player_roles |-> EmptyDict,
                game_config |-> [godfather_detectable |-> cfg.godfather_detectable],
                lynch_defense_enabled |-> cfg.lynch_defense_enabled,
                cop_speaks_first |-> cfg.cop_speaks_first,
                speaker_queue |-> <<>>,
                question_queue |-> <<>>,
                consecutive_passes |-> 0,
                question_rounds_taken |-> EmptyDict,
                raised |-> FALSE ]
        s1 == log_message(s0, System, "game_started", NoName, "system")
        s2 == log_hidden(s1, System, "game_id", NoName)
    IN  log_hidden(s2, System, "initial_roles", NoName)

\* Each operation appends to the logs after what is already there.  raised
\* tells that the operation ended by raising an exception.
Begin(s) == [s EXCEPT !.messages = <<>>, !.hidden_log = <<>>,
                       !.memory = [p \in Players(s) |-> {}],
                       !.raised = FALSE]

\* The state an operation leaves when it raises an exception
Raise(s) == [s EXCEPT !.raised = TRUE]

----------------------------------------------------------------------------
(* Player: day actions.  Each returns [ok |-> returned value, s |-> state] *)

Ret(ok, s) == [ok |-> ok, s |-> s]

can_speak(s, p) == s.alive[p] /\ s.can_speak_today[p]

TargetAlive(s, target) == target \in Players(s) /\ s.alive[target]

accuse(s, p, target) ==
    IF ~can_speak(s, p)
    THEN Ret(FALSE, log_hidden(s, p, "accuse_cannot_speak", target))
    ELSE IF ~TargetAlive(s, target)
    THEN Ret(FALSE, log_hidden(s, p, "accuse_dead_or_invalid", target))
    ELSE LET s1 == IF s.has_accused_today[p]
                   THEN log_hidden(s, p, "re_accusing", target)
                   ELSE [s EXCEPT !.has_accused_today[p] = TRUE]
         IN  Ret(TRUE, [s1 EXCEPT
                 !.messages = Append(@, [Msg("public", p, "accuses", target)
                                            EXCEPT !.class = "messaging.GameMessage"]),
                 !.unreadable = Min(@ + 1, min_discussion_turns)])

predict_role(s, p, target, predicted_role_name) ==
    IF ~s.alive[p] THEN Ret(FALSE, s)
    ELSE IF target \notin Players(s) THEN Ret(FALSE, s)
    ELSE Ret(TRUE, log_hidden(s, p, "predicted", target))

question(s, p, target) ==
    IF ~can_speak(s, p)
    THEN Ret(FALSE, log_hidden(s, p, "question_cannot_speak", target))
    ELSE IF ~TargetAlive(s, target)
    THEN Ret(FALSE, log_hidden(s, p, "question_dead_or_invalid", target))
    ELSE LET s1 == [s EXCEPT !.questions_asked_today[p] = @ \cup {target}]
             s2 == log_hidden(s1, p, "asked", target)
         IN  Ret(TRUE, append_raw(s2, p, "asks", target))

\* Variant: the whisper is logged as a public speech
whisper_aloud(s, p, target, whisper_text) ==
    IF ~s.alive[p] THEN Ret(FALSE, s)
    ELSE IF ~TargetAlive(s, target)
    THEN Ret(FALSE, log_hidden(s, p, "whisper_dead_or_invalid", target))
    ELSE LET s1 == [s EXCEPT !.whispers_sent_today[p] = Put(@, target, whisper_text)]
             s2 == log_hidden(s1, p, "whispered", target)
         IN  Ret(TRUE, [s2 EXCEPT !.messages = Append(@,
                 [Msg("public", p, "speech", target) EXCEPT
                     !.content = [NoContent EXCEPT !.has = TRUE,
                                                   !.words = whisper_text]])])

whisper(s, p, target, whisper_text) ==
    IF ~s.alive[p] THEN Ret(FALSE, s)
    ELSE IF ~TargetAlive(s, target)
    THEN Ret(FALSE, log_hidden(s, p, "whisper_dead_or_invalid", target))
    ELSE LET s1 == [s EXCEPT !.whispers_sent_today[p] = Put(@, target, whisper_text)]
             s2 == log_hidden(s1, p, "whispered", target)
         IN  Ret(TRUE, append_raw(s2, p, "whisper_placeholder", target))

vote_for(s, p, target) ==
    IF ~s.alive[p] THEN Ret(FALSE, s)
    ELSE IF ~TargetAlive(s, target)
    THEN Ret(FALSE, log_hidden(s, p, "vote_dead_or_invalid", target))
    ELSE LET old_vote == s.vote[p]
             s1 == [s EXCEPT !.vote[p] = target]
         IN  IF old_vote # NoName /\ old_vote = target
             THEN Ret(TRUE, s1)
             ELSE LET s2 == log_hidden(s1, p, IF old_vote # NoName
                                             THEN "changed_vote" ELSE "voted", target)
                      s3 == append_raw(s2, p, IF old_vote # NoName
                                             THEN "changed_vote" ELSE "voted", target)
                  IN  Ret(TRUE, update_vote_counts(s3, p, old_vote, target))

----------------------------------------------------------------------------
(* Roles: night actions.  An action record is [type, target, result];     *)
(* NoAction is Python's None.                                              *)

NoAction == [type |-> "none", target |-> NoName, result |-> "none"]

Act(type, target, result) == [type |-> type, target |-> target, result |-> result]

ActRet(act, s) == [act |-> act, s |-> s]

godfather_detectable(s) == s.game_config.godfather_detectable

doctor_can_self_heal == TRUE

\* Variant: the Cop always learns the faction of the target's role
Cop_night_action_unmasked(s, p, target_name) ==
    IF target_name = p
    THEN ActRet(NoAction, log_hidden(s, p, "cannot_investigate_self", target_name))
    ELSE IF TargetAlive(s, target_name)
    THEN LET result_faction ==
                 RoleFaction(s.role[target_name])
             s1 == log_hidden(s, p, "investigated", target_name)
             s2 == [s1 EXCEPT !.memory[p] = @ \cup
                        {[type |-> "investigation_result", day |-> s.day_count,
                          target |-> target_name, result |-> result_faction]}]
         IN  ActRet(Act("investigate", target_name, result_faction), s2)
    ELSE IF target_name # NoName
    THEN ActRet(NoAction, log_hidden(s, p, "investigate_not_found_or_dead", target_name))
    ELSE ActRet(NoAction, s)

Cop_night_action(s, p, target_name) ==
    IF target_name = p
    THEN ActRet(NoAction, log_hidden(s, p, "cannot_investigate_self", target_name))
    ELSE IF TargetAlive(s, target_name)
    THEN LET result_faction ==
                 IF s.role[target_name] = "Godfather" /\ ~godfather_detectable(s)
                 THEN TOWN
                 ELSE RoleFaction(s.role[target_name])
             s1 == log_hidden(s, p, "investigated", target_name)
             s2 == [s1 EXCEPT !.memory[p] = @ \cup
                        {[type |-> "investigation_result", day |-> s.day_count,
                          target |-> target_name, result |-> result_faction]}]
         IN  ActRet(Act("investigate", target_name, result_faction), s2)
    ELSE IF target_name # NoName
    THEN ActRet(NoAction, log_hidden(s, p, "investigate_not_found_or_dead", target_name))
    ELSE ActRet(NoAction, s)

Doctor_night_action(s, p, target_name) ==
    IF target_name = p /\ ~doctor_can_self_heal
    THEN ActRet(NoAction, log_hidden(s, p, "cannot_protect_self", target_name))
    ELSE IF TargetAlive(s, target_name)
    THEN ActRet(Act("protect", target_name, "none"),
                log_hidden(s, p, "protected", target_name))
    ELSE IF target_name # NoName
    THEN ActRet(NoAction, log_hidden(s, p, "protect_not_found_or_dead", target_name))
    ELSE ActRet(NoAction, s)

Godfather_night_action(s, p, target_name) ==
    IF target_name = p
    THEN ActRet(NoAction, log_hidden(s, p, "cannot_target_self", target_name))
    ELSE IF target_name \in Players(s) /\ s.faction[target_name] = MAFIA
    THEN ActRet(NoAction, log_hidden(s, p, "cannot_kill_fellow_mafia", target_name))
    ELSE IF TargetAlive(s, target_name)
    THEN ActRet(Act("kill", target_name, "none"),
                log_hidden(s, p, "ordered_kill", target_name))
    ELSE IF target_name # NoName
    THEN ActRet(NoAction, log_hidden(s, p, "kill_not_found_or_dead", target_name))
    ELSE ActRet(NoAction, s)

RoleBlocker_night_action(s, p, target_name) ==
    IF target_name = p
    THEN ActRet(NoAction, log_hidden(s, p, "cannot_roleblock_self", target_name))
    ELSE IF TargetAlive(s, target_name)
    THEN ActRet(Act("roleblock", target_name, "none"),
                log_hidden(s, p, "blocked", target_name))
    ELSE IF target_name # NoName
    THEN ActRet(NoAction, log_hidden(s, p, "block_not_found_or_dead", target_name))
    ELSE ActRet(NoAction, s)

Consigliere_night_action(s, p, target_name) ==
    IF TargetAlive(s, target_name)
    THEN LET role_name == s.role[target_name]
             s1 == log_hidden(s, p, "role_peek", target_name)
             s2 == [s1 EXCEPT !.memory[p] = @ \cup
                        {[type |-> "role_peek", day |-> s.day_count,
                          target |-> target_name, result |-> role_name]}]
         IN  ActRet(Act("consigliere_investigate", target_name, role_name), s2)
    ELSE IF target_name # NoName
    THEN ActRet(NoAction, log_hidden(s, p, "peek_not_found_or_dead", target_name))
    ELSE ActRet(NoAction, s)

night_action(s, p, target_name) ==
    CASE s.role[p] = "Cop" -> Cop_night_action(s, p, target_name)
      [] s.role[p] = "Doctor" -> Doctor_night_action(s, p, target_name)
      [] s.role[p] = "Godfather" -> Godfather_night_action(s, p, target_name)
      [] s.role[p] = "RoleBlocker" -> RoleBlocker_night_action(s, p, target_name)
      [] s.role[p] = "Consigliere" -> Consigliere_night_action(s, p, target_name)
      [] OTHER -> ActRet(NoAction, s)

can_act_at_night(s, p) == s.alive[p] /\ RoleCanActAtNight(s.role[p])

perform_night_action(s, p) ==
    IF ~can_act_at_night(s, p) \/ s.is_roleblocked[p]
    THEN ActRet(NoAction, IF s.is_roleblocked[p]
                          THEN log_hidden(s, p, "tried_to_act_roleblocked", NoName)
                          ELSE s)
    ELSE night_action(s, p, s.night_target[p])

validate_night_action(s, p, action_dict) ==
    IF action_dict = NoAction THEN ActRet(NoAction, s)
    ELSE IF action_dict.target = NoName
    THEN ActRet(NoAction, log_hidden(s, p, "no_target_for_night_action", NoName))
    ELSE IF action_dict.type = "investigate" /\ action_dict.target = p
    THEN ActRet(NoAction, log_hidden(s, p, "cop_investigate_self_invalid", p))
    ELSE IF /\ action_dict.type = "kill" /\ s.role[p] = "Godfather"
            /\ action_dict.target \in Players(s)
            /\ (s.faction[action_dict.target] = MAFIA \/ action_dict.target = p)
    THEN ActRet(NoAction, log_hidden(s, p, "godfather_kill_invalid", action_dict.target))
    ELSE IF /\ action_dict.type = "roleblock" /\ s.role[p] = "RoleBlocker"
            /\ action_dict.target = p
    THEN ActRet(NoAction, log_hidden(s, p, "roleblock_self_invalid", p))
    ELSE ActRet(action_dict, s)

Actors(subm) == {subm[i].actor : i \in DOMAIN subm}

\* dict item assignment on the insertion-ordered night_actions_submitted
register_night_action(s, actor_name, action) ==
    IF actor_name \notin s.alive_players THEN s
    ELSE LET entry == [actor |-> actor_name, type |-> action.type,
                       target |-> action.target, result |-> action.result]
             subm == s.night_actions_submitted
             s1 == [s EXCEPT !.night_actions_submitted =
                        IF actor_name \in Actors(subm)
                        THEN [i \in DOMAIN subm |->
                                 IF subm[i].actor = actor_name THEN entry ELSE subm[i]]
                        ELSE Append(subm, entry)]
         IN  log_hidden(s1, actor_name, "submitted_night_action", action.target)

----------------------------------------------------------------------------
(* MafiaEnvironment: trial resolution and phase transitions *)

GuiltyVotes(s) == {v \in DOMAIN s.votes_for_lynch : s.votes_for_lynch[v]}

\* Variant: half of the alive players is enough
needed_for_lynch_half(s) == Cardinality(s.alive_players) \div 2

needed_for_lynch(s) == (Cardinality(s.alive_players) \div 2) + 1

resolve_lynch(s) ==
    IF s.player_on_trial = NoName
    THEN log_hidden(s, System, "no_player_on_trial", NoName)
    ELSE LET guilty == Cardinality(GuiltyVotes(s))
             s1 == log_message(s, System, "vote_results", s.player_on_trial, "public")
             s2 == log_hidden(s1, System, "final_votes", NoName)
             s3 == IF guilty >= needed_for_lynch(s)
                   THEN kill_player(
                            log_message(s2, System, "decided_to_lynch",
                                        s.player_on_trial, "public"),
                            s.player_on_trial, "lynched")
                   ELSE log_message(s2, System, "sparing", s.player_on_trial, "public")
         IN  [s3 EXCEPT !.player_on_trial = NoName]

\* check_game_end leaves the state as it is when it returns False
transition_to_night(s) ==
    LET lynch(s1) == IF s1.player_on_trial # NoName /\ s1.phase # NIGHT
                     THEN resolve_lynch(s1)
                     ELSE s1
        night(s2) ==
            IF s2.game_over
            THEN s2
            ELSE LET s3 == reset_night_phase_state([s2 EXCEPT !.phase = NIGHT])
                     s4 == [s3 EXCEPT !.current_player_turn = NoName]
                 IN  log_message(s4, System, "night_falls", NoName, "public")
    IN  night(check_game_end(
            lynch(log_hidden(s, System, "transitioning_to_night", NoName))))

\* Variant: the trial vote is held in the VOTING phase
transition_to_final_vote_in_voting(s) ==
    LET s1 == [s EXCEPT !.phase = VOTING,
                        !.current_player_turn = NoName,
                        !.votes_for_lynch = EmptyDict]
    IN  log_message(s1, System, "final_voting_begins", s.player_on_trial, "public")

transition_to_final_vote(s) ==
    LET s1 == [s EXCEPT !.phase = FINAL_VOTE,
                        !.current_player_turn = NoName,
                        !.votes_for_lynch = EmptyDict]
    IN  log_message(s1, System, "final_voting_begins", s.player_on_trial, "public")

transition_to_voting(s) ==
    IF s.player_on_trial = NoName
    THEN transition_to_night(log_message(s, System, "no_one_on_trial", NoName, "public"))
    ELSE LET s1 == log_message(s, System, "is_on_trial", s.player_on_trial, "public")
             s2 == [s1 EXCEPT !.votes_for_lynch = EmptyDict]
         IN  IF s.lynch_defense_enabled
             THEN log_message([s2 EXCEPT !.phase = DEFENSE,
                                         !.current_player_turn = s.player_on_trial],
                              System, "may_speak_in_defense", s.player_on_trial, "public")
             ELSE transition_to_final_vote(s2)

run_defense(s) == log_hidden(s, System, "defense_phase", s.player_on_trial)

----------------------------------------------------------------------------
(* MafiaEnvironment: turn order *)

\* Variant: the speaker queue is served before the question queue
advance_turn_speakers_first(s) ==
    IF s.phase # DAY_DISCUSSION
    THEN [s EXCEPT !.current_player_turn = NoName]
    ELSE IF s.speaker_queue # <<>>
            /\ s.consecutive_passes < Cardinality(s.alive_players)
    THEN [s EXCEPT !.speaker_queue = Tail(@),
                   !.current_player_turn = Head(s.speaker_queue),
                   !.turn_number_in_phase = @ + 1,
                   !.turn_context = NoName]
    ELSE IF s.question_queue # <<>>
    THEN [s EXCEPT !.question_queue = Tail(@),
                   !.current_player_turn = Head(s.question_queue)[2],
                   !.turn_context = Head(s.question_queue)[1]]
    ELSE transition_to_voting(s)

\* Variant: with nobody left to speak the turn stays where it is
advance_turn_stays(s) ==
    IF s.phase # DAY_DISCUSSION
    THEN [s EXCEPT !.current_player_turn = NoName]
    ELSE IF s.question_queue # <<>>
    THEN [s EXCEPT !.question_queue = Tail(@),
                   !.current_player_turn = Head(s.question_queue)[2],
                   !.turn_context = Head(s.question_queue)[1]]
    ELSE IF \/ s.speaker_queue = <<>>
            \/ s.consecutive_passes >= Cardinality(s.alive_players)
    THEN s
    ELSE [s EXCEPT !.speaker_queue = Tail(@),
                   !.current_player_turn = Head(s.speaker_queue),
                   !.turn_number_in_phase = @ + 1,
                   !.turn_context = NoName]

advance_turn(s) ==
    IF s.phase # DAY_DISCUSSION
    THEN [s EXCEPT !.current_player_turn = NoName]
    ELSE IF s.question_queue # <<>>
    THEN [s EXCEPT !.question_queue = Tail(@),
                   !.current_player_turn = Head(s.question_queue)[2],
                   !.turn_context = Head(s.question_queue)[1]]
    ELSE IF \/ s.speaker_queue = <<>>
            \/ s.consecutive_passes >= Cardinality(s.alive_players)
    THEN transition_to_voting(s)
    ELSE [s EXCEPT !.speaker_queue = Tail(@),
                   !.current_player_turn = Head(s.speaker_queue),
                   !.turn_number_in_phase = @ + 1,
                   !.turn_context = NoName]

AliveCops(s) == {p \in s.alive_players \cap Players(s) : s.role[p] = "Cop"}

start_new_discussion_round(s) ==
    LET s1 == [s EXCEPT !.speaker_queue = <<>>,
                        !.question_queue = <<>>,
                        !.consecutive_passes = 0,
                        !.turn_context = NoName,
                        !.turn_number_in_phase = 0]
        alive_names == SortedSeq(s.alive_players)
        first_cop == IF AliveCops(s) = {} THEN NoName
                     ELSE CHOOSE c \in AliveCops(s) : \A d \in AliveCops(s) : c <= d
        s2 == IF s.cop_speaks_first /\ first_cop # NoName
              THEN log_hidden(
                       [s1 EXCEPT !.speaker_queue =
                            <<first_cop>> \o SortedSeq(s.alive_players \ {first_cop})],
                       System, "cop_speaks_first", first_cop)
              ELSE [s1 EXCEPT !.speaker_queue = alive_names]
    IN  advance_turn(s2)

transition_to_day(s) ==
    LET s1 == log_hidden(s, System, "transitioning_to_day", NoName)
        s2 == reset_night_state(s1, Players(s))
        s3 == [s2 EXCEPT !.phase = DAY_DISCUSSION, !.day_count = @ + 1]
        s4 == reset_day_phase_state(s3)
        s5 == start_new_discussion_round(s4)
    IN  log_message(s5, System, "day_begins", NoName, "public")

check_discussion_end_state(s) ==
    LET s1 == log_hidden(s, System, "discussion_turn_counts", NoName)
    IN  IF \A p \in s.alive_players : s.turn_counts[p] >= min_discussion_turns
        THEN log_hidden(s1, System, "all_completed_turns", NoName)
        ELSE IF s.consecutive_passes >= Cardinality(s.alive_players)
        THEN log_hidden(s1, System, "all_passed", NoName)
        ELSE s1

\* The value _check_discussion_end returns
check_discussion_end(s) ==
    \/ \A p \in s.alive_players : s.turn_counts[p] >= min_discussion_turns
    \/ s.consecutive_passes >= Cardinality(s.alive_players)

----------------------------------------------------------------------------
(* MafiaEnvironment: night resolution *)

RECURSIVE log_hidden_all(_, _)
\* log_hidden for each entry of a sequence, in order
log_hidden_all(s, entries) ==
    IF entries = <<>> THEN s
    ELSE log_hidden_all(log_hidden(s, Head(entries).actor, Head(entries).info,
                                   Head(entries).arg),
                        Tail(entries))

RECURSIVE Concat(_)
Concat(seqs) == IF seqs = <<>> THEN <<>> ELSE Head(seqs) \o Concat(Tail(seqs))

RECURSIVE kill_all(_, _)
kill_all(s, victims) ==
    IF victims = <<>> THEN s
    ELSE kill_all(IF Head(victims) \in s.alive_players
                  THEN kill_player(s, Head(victims), "killed during night")
                  ELSE s,
                  Tail(victims))

\* First loop: effective roleblock / blackmail entries, in submission order
BlockEntries(s) ==
    LET Test(e) == /\ e.actor \in s.alive_players
                   /\ e.type \in {"roleblock", "blackmail"}
                   /\ e.target # NoName /\ e.target \in s.alive_players
    IN  SelectSeq(s.night_actions_submitted, Test)

\* Variant: roleblocks have no effect
roleblocked_players_none(s) == {}

roleblocked_players(s) ==
    LET targets(be) ==
            {be[i].target : i \in {j \in DOMAIN be : be[j].type = "roleblock"}}
    IN  targets(BlockEntries(s))

blackmailed_players(s) ==
    LET targets(be) ==
            {be[i].target : i \in {j \in DOMAIN be : be[j].type = "blackmail"}}
    IN  targets(BlockEntries(s))

\* Entries of one type from actors that are alive and not roleblocked, with an
\* alive target
LiveEntries(s, type) ==
    LET Test(e) == /\ e.actor \notin roleblocked_players(s)
                   /\ e.actor \in s.alive_players
                   /\ e.type = type
                   /\ e.target # NoName /\ e.target \in s.alive_players
    IN  SelectSeq(s.night_actions_submitted, Test)

\* protected: target -> first protector in submission order
protected(s) ==
    LET first(pe) ==
            [t \in {pe[i].target : i \in DOMAIN pe} |->
                pe[CHOOSE i \in DOMAIN pe :
                      /\ pe[i].target = t
                      /\ \A j \in DOMAIN pe : pe[j].target = t => i <= j].actor]
    IN  first(LiveEntries(s, "protect"))

\* The protect entries that win their target
FirstProtects(s) ==
    LET Test(e) == protected(s)[e.target] = e.actor
    IN  SelectSeq(LiveEntries(s, "protect"), Test)

\* Variant: protection does not stop a kill
successful_kills_unprotected(s) ==
    LET all(ke) == {ke[i].target : i \in DOMAIN ke}
    IN  all(LiveEntries(s, "kill"))

successful_kills(s) ==
    LET unprotected(ke, prot) ==
            {ke[i].target : i \in {j \in DOMAIN ke : ke[j].target \notin DOMAIN prot}}
    IN  unprotected(LiveEntries(s, "kill"), protected(s))

InvestigateEntries(s, rb) ==
    LET Test(e) == /\ e.actor \notin rb
                   /\ e.actor \in s.alive_players
                   /\ e.type = "investigate"
    IN  SelectSeq(s.night_actions_submitted, Test)

RECURSIVE record_results(_, _)
record_results(s, entries) ==
    IF entries = <<>> THEN s
    ELSE LET e == Head(entries)
             s1 == log_hidden(s, e.actor, "investigation_result", e.target)
         IN  record_results(
                 [s1 EXCEPT !.night_action_results = Put(@, e.actor, e)],
                 Tail(entries))

\* The loops of _resolve_night after the first, on what the loops before them
\* have computed.  Sets are iterated in ascending name order; the order only
\* permutes log entries of one resolution.
night_effects(s1, be, rb, bm, prot, fp, ke, deaths) ==
    LET s2 == log_hidden_all(s1,
                  [i \in DOMAIN be |->
                      Hid(be[i].actor,
                          IF be[i].type = "roleblock" THEN "roleblocked" ELSE "blackmailed",
                          be[i].target)])
        s3 == [s2 EXCEPT
                 !.is_roleblocked = [p \in Players(s1) |-> IF p \in rb THEN TRUE ELSE @[p]],
                 !.can_speak_today = [p \in Players(s1) |-> IF p \in bm THEN FALSE ELSE @[p]]]
        s4 == log_hidden_all(
                  [s3 EXCEPT !.protected_by =
                       [p \in Players(s1) |-> IF p \in DOMAIN prot THEN prot[p] ELSE @[p]]],
                  [i \in DOMAIN fp |-> Hid(fp[i].actor, "protected_this_night", fp[i].target)])
        s5 == log_hidden_all(s4,
                  [i \in DOMAIN ke |-> Hid(ke[i].actor, "attempting_kill", ke[i].target)])
        s6 == log_hidden_all(s5,
                  Concat([i \in DOMAIN ke |->
                      IF ke[i].target \notin DOMAIN prot
                      THEN <<Hid(ke[i].actor, "kill_succeeded", ke[i].target)>>
                      ELSE <<Hid(ke[i].actor, "kill_failed", ke[i].target),
                             Hid(prot[ke[i].target], "successfully_protected",
                                 ke[i].target)>>]))
        s7 == kill_all(s6, SortedSeq(deaths))
        investigations(d) == record_results(d, InvestigateEntries(d, rb))
        sunrise(d) ==
            IF deaths # {}
            THEN [d EXCEPT !.messages = Append(@,
                     [Msg("public", System, "found_dead", NoName) EXCEPT !.names = deaths])]
            ELSE log_message(d, System, "nobody_died", NoName, "public")
    IN  sunrise(investigations(s7))

resolve_night(s) ==
    LET loops(s1) ==
            night_effects(s1, BlockEntries(s1), roleblocked_players(s1),
                          blackmailed_players(s1), protected(s1), FirstProtects(s1),
                          LiveEntries(s1, "kill"), successful_kills(s1))
    IN  loops([log_message(s, System, "night_ends", NoName, "public")
                  EXCEPT !.night_action_results = EmptyDict])

----------------------------------------------------------------------------
(* MafiaEnvironment.step_phase *)

step_phase(s) ==
    IF s.game_over THEN s
    ELSE LET s1 ==
               CASE s.phase = NIGHT -> transition_to_day(resolve_night(s))
                 [] s.phase = DAY_DISCUSSION ->
                        IF check_discussion_end(s)
                        THEN transition_to_voting(check_discussion_end_state(s))
                        ELSE check_discussion_end_state(s)
                 [] s.phase = DEFENSE -> transition_to_final_vote(run_defense(s))
                 [] s.phase = FINAL_VOTE -> transition_to_night(resolve_lynch(s))
                 [] OTHER -> s
         IN  check_game_end(s1)

----------------------------------------------------------------------------
(* MafiaEnvironment.process_player_action and its helpers.                 *)
(* An action dict is [action, target, content, vote_type, predicted_role]; *)
(* an absent key is NoName, NoContent or "".                               *)

Speech(sender, content) ==
    [Msg("public", sender, "speech", NoName) EXCEPT !.content = content]

log_speech(s, sender, content) ==
    [s EXCEPT !.messages = Append(@, Speech(sender, content))]

process_day_discussion_action(s, p, action_type, target, content) ==
    IF action_type = "pass"
    THEN Ret(TRUE, log_message([s EXCEPT !.consecutive_passes = @ + 1],
                               p, "passes", NoName, "public"))
    ELSE IF action_type = "accuse" /\ target # NoName
    THEN IF s.day_count = 0
         THEN Ret(FALSE, log_hidden(s, p, "no_accusations_on_day_0", target))
         ELSE LET on_trial(r) ==
                      IF r.ok THEN Ret(TRUE, [r.s EXCEPT !.player_on_trial = target])
                      ELSE r
              IN  on_trial(accuse(s, p, target))
    ELSE LET s0 == [s EXCEPT !.consecutive_passes = 0] IN
         IF action_type = "vote" /\ target # NoName
         THEN vote_for(s0, p, target)
         ELSE IF action_type = "question" /\ target # NoName /\ content.has
         THEN IF target \in s0.questions_asked_today[p]
              THEN Ret(FALSE, log_hidden(s0, p, "question_limit_reached", target))
              ELSE LET queued(r) ==
                           IF r.ok
                           THEN Ret(TRUE, [r.s EXCEPT
                                    !.questions_asked_today[p] = @ \cup {target},
                                    !.question_queue = @ \o <<<<p, target>>, <<p, p>>>>])
                           ELSE r
                   IN  queued(question(s0, p, target))
         ELSE IF action_type = "predict" /\ target # NoName /\ content.has
         THEN predict_role(s0, p, target, content)
         ELSE IF action_type = "whisper" /\ target # NoName /\ content.has
         THEN whisper(s0, p, target, content.words)
         ELSE IF action_type = "speak"
         THEN IF content.has
              \* strip_tags is not defined: NameError.  What the tags do before
              \* it is left out.
              THEN Ret(FALSE, Raise(s0))
              ELSE Ret(FALSE, log_hidden(s0, p, "speak_without_content", NoName))
         ELSE IF content.has
         THEN Ret(TRUE, log_speech(s0, p, content))
         ELSE Ret(FALSE, log_hidden(s0, p, "invalid_day_action", NoName))

process_voting_phase_action(s, p, action_type, target, content) ==
    IF action_type = "vote" /\ target = s.player_on_trial
    THEN Ret(TRUE, log_message(vote_for(s, p, target).s, p, "votes_to_lynch",
                               target, "public"))
    ELSE IF action_type = "skip"
    THEN Ret(TRUE, log_message(s, p, "decides_not_to_vote", NoName, "public"))
    ELSE Ret(FALSE, log_hidden(s, p, "invalid_voting_action", NoName))

process_final_vote_action(s, p, action) ==
    IF action.action # "vote"
    THEN Ret(FALSE, log_hidden(s, p, "expected_vote_action", NoName))
    ELSE IF action.vote_type = "final_guilty"
    THEN Ret(TRUE, log_message([s EXCEPT !.votes_for_lynch = Put(@, p, TRUE)],
                               p, "votes_guilty", s.player_on_trial, "public"))
    ELSE IF action.vote_type = "final_innocent"
    THEN Ret(TRUE, log_message([s EXCEPT !.votes_for_lynch = Put(@, p, FALSE)],
                               p, "votes_innocent", s.player_on_trial, "public"))
    ELSE IF action.vote_type = "abstain"
    THEN Ret(TRUE, log_message(s, p, "abstains", NoName, "public"))
    ELSE Ret(FALSE, log_hidden(s, p, "invalid_final_vote_type", NoName))

\* The speak branch of DAY_DISCUSSION: question tags, then the speech itself
speak_with_content(s, p, content) ==
    LET question_targets == content.q
        rounds_used == Get(s.question_rounds_taken, p, 0)
        IsNew(tgt) == tgt \notin s.questions_asked_today[p]
        new_targets == SelectSeq(question_targets, IsNew)
        order == new_targets \o <<p>>
        s1 == IF question_targets = <<>> THEN s
              ELSE IF rounds_used < 3
              THEN IF new_targets # <<>>
                   THEN log_hidden(
                            [s EXCEPT
                               !.question_rounds_taken = Put(@, p, rounds_used + 1),
                               !.questions_asked_today[p] =
                                   @ \cup {new_targets[i] : i \in DOMAIN new_targets},
                               !.question_queue =
                                   [i \in DOMAIN order |-> <<p, order[i]>>] \o @],
                            p, "queued_question_round", NoName)
                   ELSE s
              ELSE log_hidden(s, p, "question_round_limit", NoName)
        next_turn(d) == IF d.player_on_trial = NoName THEN advance_turn(d) ELSE d
    IN  Ret(TRUE, next_turn(log_speech(s1, p, content)))

night_branch(s, p, action) ==
    LET registered(valid) ==
            IF valid.act # NoAction
            THEN register_night_action(valid.s, p, valid.act)
            ELSE valid.s
        validated(intended) == validate_night_action(intended.s, p, intended.act)
        role_action(pr) ==
            IF can_act_at_night(pr.s, p) /\ action.action # "predict"
            THEN Ret(TRUE, registered(validated(perform_night_action(pr.s, p))))
            ELSE pr
    IN  role_action(IF /\ action.action = "predict" /\ action.target # NoName
                       /\ action.predicted_role # ""
                    THEN predict_role(s, p, action.target, action.predicted_role)
                    ELSE Ret(FALSE, s))

\* Variant: every discussion action goes to _process_day_discussion_action
process_player_action_one_helper(s, p, action) ==
    IF p \notin Players(s) \/ ~s.alive[p]
    THEN Ret(FALSE, log_hidden(s, p, "ignored_dead_or_invalid", NoName))
    ELSE IF s.phase = DAY_DISCUSSION /\ s.current_player_turn # p
    THEN Ret(FALSE, log_hidden(s, p, "out_of_turn", NoName))
    ELSE LET next_turn(d) ==
                 IF d.ok /\ d.s.player_on_trial = NoName
                 THEN Ret(TRUE, advance_turn(d.s))
                 ELSE d
             dispatch(s1) ==
                 CASE s1.phase = NIGHT -> night_branch(s1, p, action)
                   [] s1.phase = DAY_DISCUSSION ->
                        next_turn(process_day_discussion_action(
                                      s1, p, action.action, action.target,
                                      action.content))
                   [] s1.phase = VOTING ->
                        process_voting_phase_action(s1, p, action.action,
                                                    action.target, action.content)
                   [] s1.phase = DEFENSE ->
                        IF p = s1.player_on_trial
                        THEN Ret(TRUE, log_speech(s1, p, action.content))
                        ELSE Ret(FALSE, log_hidden(s1, p, "ignored_defense_action", NoName))
                   [] s1.phase = FINAL_VOTE -> process_final_vote_action(s1, p, action)
                   [] OTHER -> Ret(FALSE, s1)
             success(r) ==
                 IF r.ok \/ r.s.raised THEN r
                 ELSE Ret(FALSE, log_hidden(r.s, p, "action_failed_or_invalid", NoName))
         IN  success(dispatch(log_hidden(s, p, "received_action", action.target)))

\* Variant: no turn-order enforcement
process_player_action_any_turn(s, p, action) ==
    IF p \notin Players(s) \/ ~s.alive[p]
    THEN Ret(FALSE, log_hidden(s, p, "ignored_dead_or_invalid", NoName))
    ELSE LET next_turn(d) ==
                 IF d.ok /\ d.s.player_on_trial = NoName
                 THEN Ret(TRUE, advance_turn(d.s))
                 ELSE d
             dispatch(s1) ==
                 CASE s1.phase = NIGHT -> night_branch(s1, p, action)
                   [] s1.phase = DAY_DISCUSSION ->
                        IF action.action = "speak" /\ action.content.has
                        THEN speak_with_content(s1, p, action.content)
                        ELSE next_turn(process_day_discussion_action(
                                           s1, p, action.action, action.target,
                                           action.content))
                   [] s1.phase = VOTING ->
                        process_voting_phase_action(s1, p, action.action,
                                                    action.target, action.content)
                   [] s1.phase = DEFENSE ->
                        IF p = s1.player_on_trial
                        THEN Ret(TRUE, log_speech(s1, p, action.content))
                        ELSE Ret(FALSE, log_hidden(s1, p, "ignored_defense_action", NoName))
                   [] s1.phase = FINAL_VOTE -> process_final_vote_action(s1, p, action)
                   [] OTHER -> Ret(FALSE, s1)
             success(r) ==
                 IF r.ok \/ r.s.raised THEN r
                 ELSE Ret(FALSE, log_hidden(r.s, p, "action_failed_or_invalid", NoName))
         IN  success(dispatch(log_hidden(s, p, "received_action", action.target)))

process_player_action(s, p, action) ==
    IF p \notin Players(s) \/ ~s.alive[p]
    THEN Ret(FALSE, log_hidden(s, p, "ignored_dead_or_invalid", NoName))
    ELSE IF s.phase = DAY_DISCUSSION /\ s.current_player_turn # p
    THEN Ret(FALSE, log_hidden(s, p, "out_of_turn", NoName))
    ELSE LET next_turn(d) ==
                 IF d.ok /\ d.s.player_on_trial = NoName
                 THEN Ret(TRUE, advance_turn(d.s))
                 ELSE d
             dispatch(s1) ==
                 CASE s1.phase = NIGHT -> night_branch(s1, p, action)
                   [] s1.phase = DAY_DISCUSSION ->
                        IF action.action = "speak" /\ action.content.has
                        THEN speak_with_content(s1, p, action.content)
                        ELSE next_turn(process_day_discussion_action(
                                           s1, p, action.action, action.target,
                                           action.content))
                   [] s1.phase = VOTING ->
                        process_voting_phase_action(s1, p, action.action,
                                                    action.target, action.content)
                   [] s1.phase = DEFENSE ->
                        IF p = s1.player_on_trial
                        THEN Ret(TRUE, log_speech(s1, p, action.content))
                        ELSE Ret(FALSE, log_hidden(s1, p, "ignored_defense_action", NoName))
                   [] s1.phase = FINAL_VOTE -> process_final_vote_action(s1, p, action)
                   [] OTHER -> Ret(FALSE, s1)
             success(r) ==
                 IF r.ok \/ r.s.raised THEN r
                 ELSE Ret(FALSE, log_hidden(r.s, p, "action_failed_or_invalid", NoName))
         IN  success(dispatch(log_hidden(s, p, "received_action", action.target)))

----------------------------------------------------------------------------
(* GameState.get_player_observation, which MafiaEnvironment.get_observation *)
(* returns.  The messages it shows are taken from env.messages, the ones   *)
(* appended by the last operation that appended any; game_id and           *)
(* role_description are left out.                                          *)

InList(list, x) == list # NoName /\ \E i \in DOMAIN list : list[i] = x

\* One line of visible_messages: "(Whisper to who) ...", "(Whisper from who)
\* ..." or "who: ...", with the message it renders
Line(mark, who, m) == [mark |-> mark, who |-> who, content |-> m]

visible_messages(s, player_name) ==
    LET is_recip_private(m) == InList(m.recipients, player_name)
        is_sender_private(m) == m.sender = player_name /\ m.recipients # NoName
        Shown(m) ==
            /\ m.class = "GameMessage"
            /\ m.recipients = NoName \/ is_recip_private(m) \/ is_sender_private(m)
        Render(m) ==
            IF m.msg_type = "whisper" /\ is_sender_private(m)
            THEN Line("Whisper to", m.recipients[1], m)
            ELSE IF m.msg_type = "whisper" /\ is_recip_private(m)
            THEN Line("Whisper from", m.sender, m)
            ELSE Line("", m.sender, m)
        shown(ms) == [i \in DOMAIN ms |-> Render(ms[i])]
    IN  shown(SelectSeq(s.messages, Shown))

\* seq[-20:]
LastTwenty(seq) ==
    IF Len(seq) <= 20 THEN seq ELSE SubSeq(seq, Len(seq) - 19, Len(seq))

player_list_tags_all(s, player_name) ==
    [p \in Players(s) |->
        [name |-> p,
         status_tags |->
             (IF ~s.alive[p] THEN {"DEAD"} ELSE {})
             \cup (IF s.player_on_trial = p THEN {"On Trial"} ELSE {})
             \cup (IF s.faction[p] = MAFIA THEN {"Mafia"} ELSE {})]]

player_list(s, player_name) ==
    [p \in Players(s) |->
        [name |-> p,
         status_tags |->
             (IF ~s.alive[p] THEN {"DEAD"} ELSE {})
             \cup (IF s.player_on_trial = p THEN {"On Trial"} ELSE {})
             \cup (IF s.faction[player_name] = MAFIA /\ s.faction[p] = MAFIA
                   THEN {"Mafia"} ELSE {})]]

\* The mafia_members entry of the environment's own observation
mafia_members(s, player_name) ==
    IF s.faction[player_name] = MAFIA
    THEN {p \in Players(s) : s.alive[p] /\ s.faction[p] = MAFIA}
    ELSE {}

\* The dict returned to an alive player
Observation(s, player_name) ==
    [player_name |-> player_name,
     role |-> s.role[player_name],
     faction |-> s.faction[player_name],
     phase |-> s.phase,
     day |-> s.day_count,
     turn |-> s.turn_number_in_phase,
     is_current_turn |-> (s.current_player_turn = player_name),
     alive_players |-> SortedSeq(s.alive_players),
     dead_players |-> SortedSeq(s.dead_players),
     player_list |-> player_list(s, player_name),
     messages |-> LastTwenty(visible_messages(s, player_name)),
     can_speak |-> can_speak(s, player_name),
     can_act_tonight |-> (can_act_at_night(s, player_name) /\ s.phase = NIGHT),
     player_on_trial |-> s.player_on_trial,
     votes_for_accusation |-> s.votes_for_accusation,
     accusation_counts |-> s.accusation_counts,
     memory |-> s.memory[player_name],
     is_roleblocked |-> s.is_roleblocked[player_name],
     protected_by |-> s.protected_by[player_name],
     lynch_votes |-> s.votes_for_lynch]

\* [obs |-> the dict returned, s |-> the state left].  Every element of
\* state.messages that is not a GameMessage of game_state.py is reported in
\* the hidden log on each call and skipped; s.unreadable counts them up to
\* min_discussion_turns, beyond which one more entry changes no turn count.
get_player_observation(s, player_name) ==
    IF player_name \notin Players(s) \/ ~s.alive[player_name]
    THEN [obs |-> [player_name |-> player_name, alive |-> FALSE,
                   message |-> "no_longer_in_the_game"],
          s |-> s]
    ELSE [obs |-> Observation(s, player_name),
          s |-> log_hidden_all(s, [i \in 1..s.unreadable |->
                                     Hid(player_name, "invalid_message_object", NoName)])]

----------------------------------------------------------------------------
(* The driver: inputs and operations *)

ActionDict(verb, target, content, vote_type, predicted_role) ==
    [action |-> verb, target |-> target, content |-> content,
     vote_type |-> vote_type, predicted_role |-> predicted_role]

NoActionDict == ActionDict("none", NoName, NoContent, "", "")

PlainContent == [has |-> TRUE, q |-> <<>>, acc |-> NoName, words |-> "plain"]

Speak(c) == ActionDict("speak", NoName, c, "", "")

Verb(v, t) == ActionDict(v, t, NoContent, "", "")

WithText(v, t) == ActionDict(v, t, PlainContent, "", "Cop")

FinalVote(vt) == ActionDict("vote", NoName, NoContent, vt, "")

PassAction == Verb("pass", NoName)

\* A game set-up: the role line-up and rule toggles the environment is created
\* with, and what the agents and the driver of that game do: the
\* <<actor, night_target>> choices, the names the driver kills, the action
\* dicts each sender sends, how many more actions than MaxOps are sent, how
\* many more days than MaxDay are begun, the names whose observation is
\* requested, whether agents also send when process_player_action rejects
\* them unread, and whether they send every action of their menu in every
\* phase.
ThreePlayers ==
    [roles |-> <<"Godfather", "Villager", "Villager">>,
     lynch_defense_enabled |-> TRUE, cop_speaks_first |-> FALSE,
     godfather_detectable |-> FALSE,
     night |-> {<<1, 2>>, <<1, 1>>},
     victims |-> {1, 2, Unknown}, extra |-> 0, days |-> 0, out_of_turn |-> TRUE,
     any_phase |-> FALSE, count_turns |-> FALSE, blackmail |-> {},
     observers |-> {},
     actions |-> (1 :> {PassAction, Verb("accuse", 1), Verb("vote", 1),
                        Verb("vote", 3), Verb("vote", Unknown),
                        FinalVote("final_guilty"), FinalVote("abstain")})
              @@ (2 :> {Verb("vote", 3), FinalVote("final_guilty")})
              @@ (Unknown :> {PassAction})]

DefaultGame ==
    [roles |-> <<"Cop", "Doctor", "Villager", "Godfather", "Goon">>,
     lynch_defense_enabled |-> TRUE, cop_speaks_first |-> FALSE,
     godfather_detectable |-> FALSE,
     night |-> {<<1, 4>>, <<1, 5>>, <<4, 3>>, <<4, 5>>},
     victims |-> {4}, extra |-> 0, days |-> 0, out_of_turn |-> TRUE,
     any_phase |-> FALSE, count_turns |-> FALSE, blackmail |-> {},
     observers |-> {},
     actions |-> (1 :> {PassAction, Speak(PlainContent), Speak(NoContent),
                        Speak([PlainContent EXCEPT !.q = <<4, 2>>]),
                        Speak([PlainContent EXCEPT !.acc = 3]),
                        Verb("accuse", 4), Verb("vote", 4),
                        WithText("question", 3), WithText("predict", 3),
                        WithText("whisper", 3), FinalVote("final_innocent")})
              @@ (4 :> {PassAction, Speak(PlainContent), Verb("kill", 3)})]

TwoGodfathers ==
    [roles |-> <<"Doctor", "Godfather", "Godfather", "Villager", "Villager">>,
     lynch_defense_enabled |-> TRUE, cop_speaks_first |-> FALSE,
     godfather_detectable |-> FALSE,
     night |-> {<<1, 4>>, <<2, 4>>, <<3, 4>>},
     victims |-> {1}, extra |-> 0, days |-> 0, out_of_turn |-> FALSE,
     any_phase |-> FALSE, count_turns |-> FALSE, blackmail |-> {},
     observers |-> {},
     actions |-> (1 :> {PassAction, Verb("act", NoName)})]

BlockerGame ==
    [roles |-> <<"Doctor", "RoleBlocker", "Godfather", "Villager", "Villager">>,
     lynch_defense_enabled |-> FALSE, cop_speaks_first |-> FALSE,
     godfather_detectable |-> FALSE,
     night |-> {<<1, 4>>, <<2, 1>>, <<3, 4>>},
     victims |-> {2}, extra |-> 0, days |-> 0, out_of_turn |-> FALSE,
     any_phase |-> FALSE, count_turns |-> FALSE, blackmail |-> {},
     observers |-> {},
     actions |-> (1 :> {Verb("accuse", 2), FinalVote("final_guilty")})
              @@ (3 :> {FinalVote("final_guilty"), FinalVote("final_innocent")})]

SevenPlayers ==
    [roles |-> <<"Godfather", "Goon", "Goon", "Villager", "Villager",
                 "Villager", "Cop">>,
     lynch_defense_enabled |-> FALSE, cop_speaks_first |-> TRUE,
     godfather_detectable |-> FALSE,
     night |-> {},
     victims |-> {1}, extra |-> 2, days |-> 0, out_of_turn |-> FALSE,
     any_phase |-> FALSE, count_turns |-> FALSE, blackmail |-> {},
     observers |-> {},
     actions |-> (7 :> {Verb("accuse", 1), FinalVote("final_guilty")})
              @@ [p \in {4, 5, 6} |->
                    {FinalVote("final_guilty"), FinalVote("final_innocent")}]]

\* A game in which Player1 keeps asking questions inside its speeches
QuestionGame ==
    [roles |-> <<"Villager", "Villager", "Villager", "Godfather">>,
     lynch_defense_enabled |-> TRUE, cop_speaks_first |-> FALSE,
     godfather_detectable |-> FALSE,
     night |-> {},
     victims |-> {}, extra |-> 1, days |-> 1, out_of_turn |-> FALSE,
     any_phase |-> FALSE, count_turns |-> FALSE, blackmail |-> {},
     observers |-> {},
     actions |-> (1 :> {Speak([PlainContent EXCEPT !.q = <<t>>]) : t \in {2, 3, 4}})
              @@ (2 :> {Speak([PlainContent EXCEPT !.q = <<3>>])})]

\* A game configured with a Godfather the Cop can detect
DetectableGame ==
    [roles |-> <<"Cop", "Godfather", "Goon", "Villager", "Villager">>,
     lynch_defense_enabled |-> TRUE, cop_speaks_first |-> FALSE,
     godfather_detectable |-> TRUE,
     night |-> {<<1, 2>>, <<1, 3>>, <<1, 4>>},
     victims |-> {2}, extra |-> 0, days |-> 0, out_of_turn |-> FALSE,
     any_phase |-> FALSE, count_turns |-> FALSE, blackmail |-> {},
     observers |-> {2},
     actions |-> (1 :> {PassAction})]

WhisperContent(words) == [PlainContent EXCEPT !.words = words]

\* A game in which Player1 whispers to Player2 and observations are requested
WhisperGame ==
    [roles |-> <<"Villager", "Villager", "Villager", "Godfather">>,
     lynch_defense_enabled |-> TRUE, cop_speaks_first |-> FALSE,
     godfather_detectable |-> FALSE,
     night |-> {},
     victims |-> {3}, extra |-> 0, days |-> 0, out_of_turn |-> FALSE,
     any_phase |-> FALSE, count_turns |-> FALSE, blackmail |-> {},
     observers |-> {1, 2, 3, Unknown},
     actions |-> (1 :> {Speak(PlainContent), Verb("accuse", 4),
                        ActionDict("whisper", 2, WhisperContent("secret"), "", ""),
                        ActionDict("whisper", 2, WhisperContent("other secret"), "", "")})]

\* The targets of the action dicts of AnyActionGame: a player the driver
\* kills in some runs, an unknown name
AnyTargets == {4, Unknown}

\* Action dicts of every verb, of no verb ("none") and of an unknown one, with
\* target, content, vote_type and predicted_role present or absent: one for
\* each way process_player_action and its helpers tell action dicts apart
AnyActions ==
    {PassAction, Verb("skip", NoName), Verb("accuse", NoName), Verb("none", NoName),
     Speak(NoContent), Speak(PlainContent),
     Speak([PlainContent EXCEPT !.q = <<4, Unknown>>, !.acc = Unknown]),
     ActionDict("none", NoName, PlainContent, "", ""),
     ActionDict("question", 4, NoContent, "", ""),
     ActionDict("predict", 4, NoContent, "", "")}
    \cup {Verb(v, t) : v \in {"accuse", "vote", "kill"}, t \in AnyTargets}
    \cup {WithText(v, t) : v \in {"question", "predict", "whisper"}, t \in AnyTargets}
    \cup {FinalVote(vt) : vt \in {"final_guilty", "final_innocent", "abstain", "bogus"}}

\* A game whose agents send any action dict in any phase, also under the name
\* of a dead or unknown player
AnyActionGame ==
    [roles |-> <<"Cop", "Villager", "Godfather", "Villager">>,
     lynch_defense_enabled |-> TRUE, cop_speaks_first |-> FALSE,
     godfather_detectable |-> FALSE,
     night |-> {<<1, 3>>},
     victims |-> {4}, extra |-> -1, days |-> 0, out_of_turn |-> TRUE,
     any_phase |-> TRUE, count_turns |-> FALSE, blackmail |-> {<<3, 1>>},
     observers |-> {Unknown},
     actions |-> (1 :> AnyActions)
                 @@ (4 :> {PassAction, Speak(PlainContent), Speak(NoContent),
                           FinalVote("final_guilty")})
                 @@ (Unknown :> {PassAction})]

\* A game in which Player1 whispers and the others only ask for their
\* observations
ObservedGame ==
    [roles |-> <<"Godfather", "Villager", "Villager">>,
     lynch_defense_enabled |-> TRUE, cop_speaks_first |-> FALSE,
     godfather_detectable |-> FALSE,
     night |-> {},
     victims |-> {}, extra |-> -2, days |-> 0, out_of_turn |-> FALSE,
     any_phase |-> FALSE, count_turns |-> TRUE, blackmail |-> {},
     observers |-> {2, 3},
     actions |-> (1 :> {ActionDict("whisper", 2, WhisperContent("secret"), "", "")})]

\* A game in which the Godfather's night action is a blackmail of Player1,
\* registered with the game state directly (no role class submits one)
BlackmailGame ==
    [roles |-> <<"Villager", "Godfather", "Villager", "Villager">>,
     lynch_defense_enabled |-> TRUE, cop_speaks_first |-> FALSE,
     godfather_detectable |-> FALSE,
     night |-> {},
     victims |-> {}, extra |-> -1, days |-> 1, out_of_turn |-> FALSE,
     any_phase |-> FALSE, count_turns |-> FALSE, blackmail |-> {<<2, 1>>},
     observers |-> {},
     actions |-> (1 :> {Verb("accuse", 2), WithText("question", 3),
                        WithText("whisper", 3), Speak(PlainContent)})]

\* A game in which Player1 accuses one player and then another, by an accuse
\* action or inside a speech
AccusingGame ==
    [roles |-> <<"Villager", "Godfather", "Villager">>,
     lynch_defense_enabled |-> TRUE, cop_speaks_first |-> FALSE,
     godfather_detectable |-> FALSE,
     night |-> {},
     victims |-> {}, extra |-> -1, days |-> 0, out_of_turn |-> FALSE,
     any_phase |-> FALSE, count_turns |-> FALSE, blackmail |-> {},
     observers |-> {},
     actions |-> (1 :> {Verb("accuse", 2), Verb("accuse", 3),
                        Speak([PlainContent EXCEPT !.acc = 3])})]

\* A game in which Player1 passes and Player2 passes or speaks
PassingGame ==
    [roles |-> <<"Godfather", "Villager", "Villager">>,
     lynch_defense_enabled |-> TRUE, cop_speaks_first |-> FALSE,
     godfather_detectable |-> FALSE,
     night |-> {},
     victims |-> {}, extra |-> -1, days |-> 0, out_of_turn |-> FALSE,
     any_phase |-> FALSE, count_turns |-> TRUE, blackmail |-> {},
     observers |-> {},
     actions |-> (1 :> {PassAction})
              @@ (2 :> {PassAction, Speak(PlainContent), Verb("accuse", 3)})]

\* A game whose investigators, a Cop and a Consigliere, face a RoleBlocker
InvestigatorGame ==
    [roles |-> <<"Cop", "RoleBlocker", "Consigliere", "Villager", "Villager">>,
     lynch_defense_enabled |-> TRUE, cop_speaks_first |-> FALSE,
     godfather_detectable |-> FALSE,
     night |-> {<<1, 3>>, <<1, Unknown>>, <<2, 1>>, <<2, 2>>, <<2, 3>>, <<3, 1>>},
     victims |-> {}, extra |-> 0, days |-> 0, out_of_turn |-> FALSE,
     any_phase |-> FALSE, count_turns |-> FALSE, blackmail |-> {},
     observers |-> {},
     actions |-> (1 :> {PassAction})]

Setups == {ThreePlayers, DefaultGame, TwoGodfathers, BlockerGame, SevenPlayers,
           QuestionGame, DetectableGame, WhisperGame, ObservedGame,
           PassingGame, InvestigatorGame, BlackmailGame, AccusingGame}

\* Would process_player_action look at the action dict of this sender
Heard(p) ==
    /\ p \in Players(env) /\ env.alive[p]
    /\ env.phase = DAY_DISCUSSION => env.current_player_turn = p

\* The action dicts an agent sends in the current phase: the day verbs in the
\* discussion, the trial votes in the final vote, the role actions at night,
\* and a pass in any phase.
InPhase(a) ==
    \/ a = PassAction
    \/ env.phase = DAY_DISCUSSION /\ a.vote_type = ""
    \/ env.phase \in {DEFENSE, FINAL_VOTE} /\ a.vote_type # ""
    \/ env.phase = NIGHT /\ a.action \in {"act", "kill"}
    \/ setup.any_phase

\* A sender whose action is rejected unread sends one representative action
InputsOf(p) ==
    IF Heard(p) THEN {a \in setup.actions[p] : InPhase(a)}
    ELSE {PassAction}

Last(op, target, ret) ==
    [op |-> op, target |-> target, ret |-> ret, action |-> NoActionDict,
     obs |-> EmptyDict]

\* Does process_player_action take this action of p as a speech whose question
\* tags name a target p has not asked today
AsksAnew(p, a) ==
    /\ Heard(p) /\ env.phase = DAY_DISCUSSION
    /\ a.action = "speak" /\ a.content.has
    /\ \E i \in DOMAIN a.content.q : a.content.q[i] \notin env.questions_asked_today[p]

\* The discussion of the day has not seen any accepted action
NoTurns(s) == [turns |-> [p \in Players(s) |-> 0], passes |-> 0]

\* The turns of today's discussion after process_player_action has returned
\* ok to action a of p, sent in phase
Turns(t, phase, p, a, ok) ==
    IF phase = DAY_DISCUSSION /\ ok
    THEN [turns |-> [t.turns EXCEPT ![p] = Min(@ + 1, min_discussion_turns)],
          passes |-> IF a.action = "pass" THEN t.passes + 1 ELSE 0]
    ELSE t

InitOf(games) ==
    /\ setup \in games
    /\ env = NewEnv(setup)
    /\ last = Last("init", NoName, FALSE)
    /\ nops = 0
    /\ nkills = 0
    /\ question_speeches = [p \in Players(env) |-> 0]
    /\ today = NoTurns(env)

Init == InitOf(Setups)

\* env.process_player_action(player_name, action)
ProcessPlayerAction ==
    /\ nops < MaxOps + setup.extra
    /\ \E p \in DOMAIN setup.actions : \E a \in InputsOf(p) :
          /\ setup.out_of_turn \/ Heard(p)
          /\ LET returns(r) ==
                     /\ env' = r.s
                     /\ last' = [Last("process_player_action", p, r.ok)
                                    EXCEPT !.action = a]
                     /\ today' = IF setup.count_turns
                                 THEN Turns(today, env.phase, p, a, r.ok)
                                 ELSE today
             IN  returns(process_player_action(Begin(env), p, a))
          /\ question_speeches' =
                 IF AsksAnew(p, a)
                 THEN [question_speeches EXCEPT ![p] = Min(@ + 1, 4)]
                 ELSE question_speeches
    /\ nops' = nops + 1
    /\ UNCHANGED <<setup, nkills>>

\* The agent of a night-acting player chooses player.night_target, then the
\* driver submits the agent's action
NightAction ==
    /\ nops < MaxOps + setup.extra
    /\ env.phase = NIGHT
    /\ \E c \in setup.night :
          LET p == c[1]
              t == c[2]
          IN
          /\ can_act_at_night(env, p)
          /\ LET returns(r) ==
                     /\ env' = r.s
                     /\ last' = [Last("night_action", p, r.ok)
                                    EXCEPT !.action = Verb("act", t)]
             IN  returns(process_player_action(
                             [Begin(env) EXCEPT !.night_target[p] = t], p,
                             Verb("act", t)))
    /\ nops' = nops + 1
    /\ UNCHANGED <<setup, nkills, question_speeches, today>>

\* env.state.register_night_action(actor, {"type": "blackmail", "target": t})
RegisterNightAction ==
    /\ env.phase = NIGHT
    /\ \E c \in setup.blackmail :
          /\ env' = register_night_action(
                        Begin(env), c[1],
                        [type |-> "blackmail", target |-> c[2], result |-> "none"])
          /\ last' = [Last("register_night_action", c[1], FALSE)
                         EXCEPT !.action = Verb("blackmail", c[2])]
    /\ UNCHANGED <<setup, nops, nkills, question_speeches, today>>

\* env.advance_turn()
AdvanceTurn ==
    /\ env' = advance_turn(Begin(env))
    /\ last' = Last("advance_turn", NoName, FALSE)
    /\ UNCHANGED <<setup, nops, nkills, question_speeches, today>>

\* env.step_phase(), which returns the game_over flag it leaves
StepPhase ==
    /\ ~(env.phase = NIGHT /\ env.day_count >= MaxDay + setup.days)
    /\ LET returns(e) == /\ env' = e
                         /\ last' = Last("step_phase", NoName, e.game_over)
       IN  returns(step_phase(Begin(env)))
    /\ question_speeches' = IF env.phase = NIGHT
                            THEN [p \in Players(env) |-> 0]
                            ELSE question_speeches
    /\ today' = IF env.phase = NIGHT THEN NoTurns(env) ELSE today
    /\ UNCHANGED <<setup, nops, nkills>>

\* env.get_observation(name)
GetObservation ==
    /\ \E name \in setup.observers :
          LET returns(r) ==
                  /\ env' = r.s
                  /\ last' = [Last("get_observation", name, FALSE) EXCEPT !.obs = r.obs]
          IN  returns(get_player_observation([env EXCEPT !.hidden_log = <<>>], name))
    /\ UNCHANGED <<setup, nops, nkills, question_speeches, today>>

\* env.state.kill_player(name)
KillPlayer ==
    /\ \E name \in setup.victims :
        /\ name \in env.alive_players => nkills < MaxDirectKills
        /\ env' = kill_player(Begin(env), name, "killed")
        /\ last' = Last("kill_player", name, FALSE)
        /\ nkills' = IF name \in env.alive_players THEN nkills + 1 ELSE nkills
    /\ UNCHANGED <<setup, nops, question_speeches, today>>

\* env.state.check_game_end(), which returns the game_over flag it leaves
CheckGameEnd ==
    /\ LET returns(e) == /\ env' = e
                         /\ last' = Last("check_game_end", NoName, e.game_over)
       IN  returns(check_game_end(Begin(env)))
    /\ UNCHANGED <<setup, nops, nkills, question_speeches, today>>

Next ==
    \/ ProcessPlayerAction
    \/ NightAction
    \/ RegisterNightAction
    \/ AdvanceTurn
    \/ StepPhase
    \/ GetObservation
    \/ KillPlayer
    \/ CheckGameEnd

Spec == Init /\ [][Next]_vars

\* The set-ups in which some agent whispers
WhisperSetups ==
    {g \in Setups : \E p \in DOMAIN g.actions : \E a \in g.actions[p] :
                       a.action = "whisper"}

\* The games with whispers: in the others whispers_sent_today stays empty
WhisperInit == Init /\ setup \in WhisperSetups

WhisperSpec == WhisperInit /\ [][Next]_vars

\* The game in which any action dict is sent
AnyActionInit == InitOf({AnyActionGame})

AnyActionSpec == AnyActionInit /\ [][Next]_vars

----------------------------------------------------------------------------
(* The loop of run_simulation: one action per branch of its body.  An agent *)
(* sends any action of its menu (a player without menu passes), and in the  *)
(* discussion only runs in which the action is accepted are followed.       *)
(* nops is the loop's step_count.  The history variables nkills,            *)
(* question_speeches and today are not kept.                                *)

\* agent.act() of player p
Menu(p) ==
    IF p \in DOMAIN setup.actions
    THEN {a \in setup.actions[p] : InPhase(a)}
    ELSE {PassAction}

FinalVotes == {FinalVote(vt) : vt \in {"final_guilty", "final_innocent", "abstain"}}

RECURSIVE CastVotes(_, _, _)
\* The final vote: each alive player in turn observes and votes
CastVotes(s, names, ballot) ==
    IF names = <<>> THEN s
    ELSE CastVotes(
             IF Head(names) \in s.alive_players
             THEN process_player_action(
                      get_player_observation(s, Head(names)).s,
                      Head(names), ballot[Head(names)]).s
             ELSE s,
             Tail(names), ballot)

\* The branch for FINAL_VOTE
DriverFinalVote ==
    /\ ~env.game_over /\ nops < max_steps
    /\ env.phase = FINAL_VOTE
    /\ \E ballot \in [env.alive_players -> FinalVotes] :
          env' = step_phase(CastVotes(Begin(env), SortedSeq(env.alive_players), ballot))
    /\ last' = Last("run_simulation", NoName, FALSE)
    /\ nops' = nops + 1
    /\ UNCHANGED <<setup, nkills, question_speeches, today>>

\* No current player: the environment resolves the phase
DriverStepPhase ==
    /\ ~env.game_over /\ nops < max_steps
    /\ env.phase # FINAL_VOTE
    /\ env.current_player_turn = NoName
    /\ ~(env.phase = NIGHT /\ env.day_count >= MaxDay + setup.days)
    /\ env' = step_phase(Begin(env))
    /\ last' = Last("run_simulation", NoName, FALSE)
    /\ nops' = nops + 1
    /\ UNCHANGED <<setup, nkills, question_speeches, today>>

\* The current player is dead or unknown: the turn is skipped
DriverSkip ==
    /\ ~env.game_over /\ nops < max_steps
    /\ env.phase # FINAL_VOTE
    /\ env.current_player_turn # NoName
    /\ ~(env.current_player_turn \in Players(env) /\ env.alive[env.current_player_turn])
    /\ env' = advance_turn(Begin(env))
    /\ last' = Last("run_simulation", env.current_player_turn, FALSE)
    /\ nops' = nops + 1
    /\ UNCHANGED <<setup, nkills, question_speeches, today>>

\* The current player observes and acts; after an accepted action the driver
\* advances the turn
DriverTurn ==
    /\ ~env.game_over /\ nops < max_steps
    /\ env.phase # FINAL_VOTE
    /\ env.current_player_turn \in Players(env)
    /\ env.alive[env.current_player_turn]
    /\ \E a \in Menu(env.current_player_turn) :
          LET returns(r) ==
                  /\ env.phase = DAY_DISCUSSION => r.ok
                  /\ env' = IF r.ok THEN advance_turn(r.s) ELSE r.s
                  /\ last' = [Last("run_simulation", env.current_player_turn, r.ok)
                                 EXCEPT !.action = a]
          IN  returns(process_player_action(
                          get_player_observation(Begin(env), env.current_player_turn).s,
                          env.current_player_turn, a))
    /\ nops' = nops + 1
    /\ UNCHANGED <<setup, nkills, question_speeches, today>>

DriverNext ==
    \/ DriverFinalVote
    \/ DriverStepPhase
    \/ DriverSkip
    \/ DriverTurn

\* A game of two days in which Player1 accuses Player2 and asks Player3 and
\* Player2 a question
LynchGame ==
    [roles |-> <<"Villager", "Villager", "Villager", "Villager", "Godfather">>,
     lynch_defense_enabled |-> FALSE, cop_speaks_first |-> FALSE,
     godfather_detectable |-> FALSE,
     night |-> {},
     victims |-> {}, extra |-> 0, days |-> 1, out_of_turn |-> FALSE,
     any_phase |-> FALSE, count_turns |-> FALSE, blackmail |-> {},
     observers |-> {},
     actions |-> (1 :> {PassAction, Verb("accuse", 2), WithText("question", 3),
                        Speak([PlainContent EXCEPT !.q = <<3, 2>>])})]

\* The games run by the driver
DriverGames == {DefaultGame, QuestionGame, AccusingGame, PassingGame, AnyActionGame,
                LynchGame}

DriverInit == InitOf(DriverGames)

\* The loop goes on while its condition holds
DriverSpec == DriverInit /\ [][DriverNext]_vars /\ WF_vars(DriverNext)

----------------------------------------------------------------------------
(* Properties *)

\* C1: in every reachable state alive_players and dead_players are disjoint,
\* their union is the set of all player names, and a name is in alive_players
\* exactly when that Player's alive flag is true.
C1_AlivePartition ==
    /\ env.alive_players \cap env.dead_players = {}
    /\ env.alive_players \cup env.dead_players = DOMAIN setup.roles
    /\ \A p \in DOMAIN setup.roles : p \in env.alive_players <=> env.alive[p]

\* A kill_player call has just moved a player to dead_players
C1_Witness ==
    /\ last.op = "kill_player"
    /\ last.target \in env.dead_players
    /\ \E i \in DOMAIN env.messages :
          env.messages[i].msg_type = "death_announcement"

\* C2: for every target t, accusation_counts[t] (0 when the key is absent) is
\* the number of voters v with votes_for_accusation[v] = t, and no key of
\* accusation_counts has a count of zero or less.
C2_AccusationTally ==
    /\ \A t \in DOMAIN setup.roles \cup DOMAIN env.accusation_counts :
          Get(env.accusation_counts, t, 0) =
              Cardinality({v \in DOMAIN env.votes_for_accusation :
                              env.votes_for_accusation[v] = t})
    /\ \A t \in DOMAIN env.accusation_counts : env.accusation_counts[t] > 0

\* A voter has just changed their vote to another target
C2_Witness ==
    /\ last.op = "process_player_action"
    /\ \E i \in DOMAIN env.messages : env.messages[i].text = "changed_vote"
    /\ \E v \in DOMAIN env.votes_for_accusation :
          env.accusation_counts = (env.votes_for_accusation[v] :> 1)

\* The alive players of a faction, read from the alive set
AliveOf(e, f) == {p \in e.alive_players : e.faction[p] = f}

\* C3: check_game_end, called on a game that is not over (directly, or by
\* kill_player on an alive player), sets winner TOWN if no alive player is
\* Mafia, else winner MAFIA if alive Mafia >= alive Town; otherwise it leaves
\* game_over, winner and phase unchanged.
C3_WinRule ==
    [][ ( /\ ~env.game_over
          /\ \/ last'.op = "check_game_end"
             \/ last'.op = "kill_player" /\ last'.target \in env.alive_players )
        => IF AliveOf(env', MAFIA) = {}
           THEN env'.game_over /\ env'.winner = TOWN /\ env'.phase = GAME_OVER
           ELSE IF Cardinality(AliveOf(env', MAFIA)) >= Cardinality(AliveOf(env', TOWN))
           THEN env'.game_over /\ env'.winner = MAFIA /\ env'.phase = GAME_OVER
           ELSE /\ env'.game_over = env.game_over
                /\ env'.winner = env.winner
                /\ env'.phase = env.phase
                /\ (last'.op = "check_game_end" => ~last'.ret) ]_vars

\* A kill has just left as many Mafia as Town alive, and Mafia has won the tie
C3_Witness ==
    /\ last.op = "kill_player"
    /\ env.game_over /\ env.winner = MAFIA
    /\ Cardinality(AliveOf(env, MAFIA)) = Cardinality(AliveOf(env, TOWN))

\* C5: kill_player on a name that is already dead or unknown changes nothing:
\* the alive and dead sets, roles, factions, game_over, winner and phase stay
\* as they were and nothing is appended to the message log.
C5_KillIdempotent ==
    [][ (last'.op = "kill_player" /\ last'.target \notin env.alive_players)
        => /\ env' = Begin(env)
           /\ env'.messages = <<>> ]_vars

\* kill_player has just been called on a player who was already dead
C5_Witness ==
    /\ last.op = "kill_player"
    /\ last.target \in env.dead_players
    /\ env.messages = <<>>

\* C6: when kill_player kills a Godfather and some alive player is a Goon, the
\* first alive Goon in registration order becomes Godfather, keeps faction
\* MAFIA, and no other role changes; with no alive Goon no role or faction
\* changes.
C6_Succession ==
    [][ ( /\ last'.op = "kill_player"
          /\ last'.target \in env.alive_players
          /\ env.role[last'.target] = "Godfather" )
        => LET goons == {p \in env.alive_players \ {last'.target} :
                            env.role[p] = "Goon"}
           IN  IF goons # {}
               THEN LET first == CHOOSE p \in goons : \A q \in goons : p <= q
                    IN  /\ env'.role = [env.role EXCEPT ![first] = "Godfather"]
                        /\ env'.faction = env.faction
                        /\ env'.faction[first] = MAFIA
               ELSE env'.role = env.role /\ env'.faction = env.faction ]_vars

\* The Godfather of a game with two alive Goons has just been killed: the
\* first Goon is Godfather, the second still a Goon
C6_Witness ==
    /\ last.op = "kill_player"
    /\ last.target \in env.dead_players
    /\ \E i \in DOMAIN env.messages : env.messages[i].text = "promoted"
    /\ \E p, q \in env.alive_players :
          /\ p < q
          /\ setup.roles[p] = "Goon" /\ env.role[p] = "Godfather"
          /\ setup.roles[q] = "Goon" /\ env.role[q] = "Goon"

\* C4: after every operation game_over is true exactly when the phase is
\* GAME_OVER, also when a kill of the night resolution inside step_phase
\* meets the win condition.
C4_GameOverIffPhase == env.game_over <=> env.phase = GAME_OVER

\* The night's submissions, as step_phase finds them
Submitted(e) == {e.night_actions_submitted[i] : i \in DOMAIN e.night_actions_submitted}

\* p is the target of a roleblock whose actor and target are alive
Roleblocked(e, p) ==
    \E b \in Submitted(e) :
        /\ b.type = "roleblock" /\ b.target = p
        /\ b.actor \in e.alive_players /\ p \in e.alive_players

\* The actions of one type that target x and come from alive actors that are
\* not roleblocked
ActingOn(e, type, x) ==
    {a \in Submitted(e) :
        /\ a.type = type /\ a.target = x
        /\ a.actor \in e.alive_players /\ ~Roleblocked(e, a.actor)}

\* step_phase is called in the NIGHT phase (the game is never over there)
ResolvesNight == last'.op = "step_phase" /\ env.phase = NIGHT

HiddenTail(e) == {e.hidden_log[i] : i \in DOMAIN e.hidden_log}

\* C7: in night resolution an alive player X that an alive, non-roleblocked
\* actor protects stays in alive_players however many non-roleblocked killers
\* target X, and every such kill is logged as failed, none as succeeded.
C7_ProtectedSurvives ==
    [][ ResolvesNight =>
        \A x \in env.alive_players :
            ActingOn(env, "protect", x) # {} =>
               /\ x \in env'.alive_players
               /\ \A k \in ActingOn(env, "kill", x) :
                     Hid(k.actor, "kill_failed", x) \in HiddenTail(env')
               /\ \A h \in HiddenTail(env') :
                     ~(h.info = "kill_succeeded" /\ h.arg = x) ]_vars

\* Two killers have just failed on the same protected player
C7_Witness ==
    /\ last.op = "step_phase"
    /\ \E x \in env.alive_players :
          Cardinality({h \in HiddenTail(env) :
                          h.info = "kill_failed" /\ h.arg = x}) = 2

\* D protects x, somebody roleblocks D, an alive non-roleblocked killer kills
\* x, and nobody else protects x
BlockedProtection(e, D, x, blockers) ==
    /\ \E a \in Submitted(e) : a.type = "protect" /\ a.actor = D /\ a.target = x
    /\ \E b \in Submitted(e) :
          b.type = "roleblock" /\ b.target = D /\ b.actor \in blockers
    /\ ActingOn(e, "kill", x) # {}
    /\ \A a \in Submitted(e) : a.type = "protect" /\ a.target = x => a.actor = D

\* C8 as stated: whenever D protects X, some actor has submitted a roleblock
\* on D and an alive non-roleblocked killer kills X, X is dead after
\* step_phase.
C8_AnyBlocker ==
    [][ ResolvesNight =>
        \A D, x \in DOMAIN setup.roles :
            BlockedProtection(env, D, x, DOMAIN setup.roles)
                => x \notin env'.alive_players ]_vars

\* C8: whenever D protects X, an actor that is alive at resolution has
\* submitted a roleblock on D and an alive non-roleblocked killer kills X, X
\* is dead after step_phase, whatever the order of submission.
C8_AliveBlocker ==
    [][ ResolvesNight =>
        \A D, x \in DOMAIN setup.roles :
            BlockedProtection(env, D, x, env.alive_players)
                => x \notin env'.alive_players ]_vars

\* A roleblocked Doctor's patient has just been killed in the night
C8_Witness ==
    /\ last.op = "step_phase"
    /\ \E D, x \in DOMAIN setup.roles :
          /\ D \in env.alive_players
          /\ x \in env.dead_players
          /\ \E a \in Submitted(env) :
                a.type = "protect" /\ a.actor = D /\ a.target = x
          /\ \E h \in HiddenTail(env) : h.info = "roleblocked" /\ h.arg = D
          /\ \E h \in HiddenTail(env) : h.info = "kill_succeeded" /\ h.arg = x

\* step_phase is called in FINAL_VOTE and gets past its game_over check
ResolvesTrial ==
    last'.op = "step_phase" /\ env.phase = FINAL_VOTE /\ ~env.game_over

Guilty(e) == {v \in DOMAIN e.votes_for_lynch : e.votes_for_lynch[v]}

\* C9: when step_phase resolves a final vote with N alive players and g
\* guilty votes, the player on trial dies if g >= floor(N/2) + 1 and nobody
\* dies otherwise.
C9_LynchThreshold ==
    [][ ResolvesTrial =>
        LET N == Cardinality(env.alive_players)
            g == Cardinality(Guilty(env))
        IN  env'.dead_players =
                env.dead_players \cup
                    (IF g >= (N \div 2) + 1 THEN {env.player_on_trial} ELSE {}) ]_vars

\* Seven were alive and exactly four guilty votes have just lynched the accused
C9_Witness ==
    /\ last.op = "step_phase"
    /\ Len(setup.roles) = 7
    /\ Cardinality(env.dead_players) = 1
    /\ Cardinality(Guilty(env)) = 4
    /\ \E i \in DOMAIN env.messages :
          /\ env.messages[i].text = "lynched"
          /\ env.messages[i].arg \in env.dead_players

\* C10: step_phase in FINAL_VOTE clears player_on_trial and leaves the phase
\* GAME_OVER if the win condition then holds, NIGHT otherwise.
C10_TrialAlwaysLeft ==
    [][ (last'.op = "step_phase" /\ env.phase = FINAL_VOTE) =>
        /\ env'.player_on_trial = NoName
        /\ env'.phase =
              IF \/ AliveOf(env', MAFIA) = {}
                 \/ Cardinality(AliveOf(env', MAFIA)) >= Cardinality(AliveOf(env', TOWN))
              THEN GAME_OVER ELSE NIGHT ]_vars

\* C11: during NIGHT an alive Godfather G sends, through
\* process_player_action, an action whose target is an alive non-Mafia player
\* V; nobody protects V and nobody roleblocks G.  After the next step_phase V
\* is in dead_players, not in alive_players, and the morning announcement
\* names V.
C11_NightKillByTarget ==
    [][ ( /\ ResolvesNight
          /\ last.op \in {"process_player_action", "night_action"} )
        =>
        \A G, V \in env.alive_players :
           ( /\ last.target = G /\ last.ret
             /\ env.role[G] = "Godfather"
             /\ env.faction[V] # MAFIA
             /\ Hid(G, "received_action", V) \in HiddenTail(env)
             /\ ~\E a \in Submitted(env) :
                    \/ a.type = "protect" /\ a.target = V
                    \/ a.type = "roleblock" /\ a.target = G )
           => /\ V \in env'.dead_players
              /\ V \notin env'.alive_players
              /\ \E i \in DOMAIN env'.messages :
                    /\ env'.messages[i].text = "found_dead"
                    /\ V \in env'.messages[i].names ]_vars

\* C12: process_player_action returns False for every action of a dead player
\* or an unknown name, in any phase, and for every action sent in
\* DAY_DISCUSSION by a player other than current_player_turn; such a call
\* appends one hidden-log entry (and thereby the per-player count that
\* _check_discussion_end derives from the hidden log) and changes nothing
\* else: phase, current turn, both queues, pass counter, player_on_trial,
\* tallies, public messages and every Player's state are as before.
C12_RejectedUnread ==
    [][ ( /\ last'.op = "process_player_action"
          /\ \/ last'.target \notin Players(env)
             \/ ~env.alive[last'.target]
             \/ env.phase = DAY_DISCUSSION
                /\ env.current_player_turn # last'.target )
        => /\ last'.ret = FALSE
           /\ Len(env'.hidden_log) = 1
           /\ env'.hidden_log[1].actor = last'.target
           /\ env' = [Begin(env) EXCEPT !.hidden_log = env'.hidden_log,
                                         !.turn_counts = env'.turn_counts] ]_vars

\* An alive player has just been rejected for acting out of turn while other
\* speakers are still queued and somebody is on trial
C12_Witness ==
    /\ last.op = "process_player_action" /\ ~last.ret
    /\ env.phase = DAY_DISCUSSION
    /\ last.target \in env.alive_players
    /\ env.current_player_turn \in env.alive_players \ {last.target}
    /\ env.speaker_queue # <<>>
    /\ env.player_on_trial # NoName
    /\ env.hidden_log = <<Hid(last.target, "out_of_turn", NoName)>>

\* The phase changes the environment makes, other than into GAME_OVER
PhaseSteps ==
    {<<NIGHT, DAY_DISCUSSION>>, <<DAY_DISCUSSION, DEFENSE>>,
     <<DAY_DISCUSSION, FINAL_VOTE>>, <<DAY_DISCUSSION, NIGHT>>,
     <<DEFENSE, FINAL_VOTE>>, <<FINAL_VOTE, NIGHT>>}

\* C13: across any environment operation the phase stays the same, or changes
\* by NIGHT -> DAY_DISCUSSION, DAY_DISCUSSION -> DEFENSE | FINAL_VOTE | NIGHT,
\* DEFENSE -> FINAL_VOTE, FINAL_VOTE -> NIGHT, or from any phase to GAME_OVER;
\* VOTING is never the phase after an operation has returned.
C13_PhaseTransitions ==
    [][ /\ \/ env'.phase = env.phase
           \/ <<env.phase, env'.phase>> \in PhaseSteps
           \/ env'.phase = GAME_OVER
        /\ env'.phase # VOTING ]_vars

\* A whole day has gone round: step_phase has just resolved a final vote that
\* spared the accused and night 1 has begun
C13_Witness ==
    /\ last.op = "step_phase"
    /\ env.phase = NIGHT /\ env.day_count = 1
    /\ \E i \in DOMAIN env.messages : env.messages[i].text = "sparing"

\* C14: a player being on trial is by itself a discussion-end condition:
\* step_phase called in DAY_DISCUSSION with player_on_trial set (and the game
\* not over) ends the discussion, whatever the turn counts and the passes:
\* to DEFENSE with current_player_turn the accused when lynch_defense_enabled,
\* to FINAL_VOTE when not.
C14_TrialEndsDiscussion ==
    [][ ( /\ last'.op = "step_phase"
          /\ env.phase = DAY_DISCUSSION
          /\ env.player_on_trial # NoName
          /\ ~env.game_over )
        => IF env.lynch_defense_enabled
           THEN /\ env'.phase = DEFENSE
                /\ env'.current_player_turn = env.player_on_trial
           ELSE env'.phase = FINAL_VOTE ]_vars

\* C15: within one day the first three speeches of a player whose question
\* tags name at least one target not asked yet each put a question round (the
\* new targets, then the asker) at the front of the question queue; a further
\* speech with question tags that day adds no entry to the queue; either way
\* the speech is accepted (True) and logged publicly.  When nobody is on
\* trial the speaker's turn then ends, which takes the first entry off the
\* queue.
C15_QuestionRoundCap ==
    [][ \A p \in Players(env) :
          LET a == last'.action
              IsNew(t) == t \notin env.questions_asked_today[p]
              order == SelectSeq(a.content.q, IsNew) \o <<p>>
              round == [i \in DOMAIN order |-> <<p, order[i]>>]
              after(queue) == IF env.player_on_trial = NoName /\ queue # <<>>
                              THEN Tail(queue) ELSE queue
          IN  ( /\ last'.op = "process_player_action" /\ last'.target = p
                /\ Heard(p) /\ env.phase = DAY_DISCUSSION
                /\ a.action = "speak" /\ a.content.has /\ a.content.q # <<>> )
              => /\ last'.ret
                 /\ \E i \in DOMAIN env'.messages :
                       env'.messages[i] = Speech(p, a.content)
                 /\ (AsksAnew(p, a) /\ question_speeches[p] < 3)
                       => env'.question_queue = after(round \o env.question_queue)
                 /\ question_speeches[p] >= 3
                       => env'.question_queue = after(env.question_queue) ]_vars

\* C16: the question-round cap is per day: when step_phase begins a
\* DAY_DISCUSSION every player's count of used question rounds is zero.
C16_RoundsResetEachDay ==
    [][ ( /\ last'.op = "step_phase"
          /\ env.phase = NIGHT /\ env'.phase = DAY_DISCUSSION )
        => \A p \in Players(env') :
              Get(env'.question_rounds_taken, p, 0) = 0 ]_vars

\* C17: a speak action of the current player (who can speak) whose content
\* embeds an accuse tag naming an alive player X sets player_on_trial to X
\* when nobody is on trial as the action is processed, and leaves
\* player_on_trial as it is when somebody is.
C17_EmbeddedAccusation ==
    [][ \A p, X \in env.alive_players :
          ( /\ last'.op = "process_player_action" /\ last'.target = p
            /\ env.phase = DAY_DISCUSSION /\ Heard(p) /\ can_speak(env, p)
            /\ last'.action.action = "speak" /\ last'.action.content.has
            /\ last'.action.content.acc = X )
          => env'.player_on_trial =
                IF env.player_on_trial = NoName THEN X ELSE env.player_on_trial ]_vars

WhisperOf(A, B) == [Msg("raw", A, "whisper_placeholder", B) EXCEPT !.class = "str"]

\* C19: after a successful whisper from alive player A to alive player B, the
\* messages in B's observation include the whisper, marked as a whisper from
\* A, and the messages in A's observation include it, marked as a whisper to
\* B.  Checked on the observations requested while the whisper is among the
\* latest messages.
C19_WhisperObserved ==
    [][ \A A, B \in env.alive_players :
          ( /\ last'.op = "get_observation"
            /\ B \in DOMAIN env.whispers_sent_today[A]
            /\ \E i \in DOMAIN env.messages : env.messages[i] = WhisperOf(A, B) )
          => /\ last'.target = B =>
                   \E i \in DOMAIN last'.obs.messages :
                      /\ last'.obs.messages[i].mark = "Whisper from"
                      /\ last'.obs.messages[i].who = A
             /\ last'.target = A =>
                   \E i \in DOMAIN last'.obs.messages :
                      /\ last'.obs.messages[i].mark = "Whisper to"
                      /\ last'.obs.messages[i].who = B ]_vars

\* The words a whisper can carry
WhisperWords == {"secret", "other secret"}

\* The state with the words of every whisper that C neither sent nor received
\* blanked: two states with the same image differ only in such words
Blanked(e, C) ==
    [e EXCEPT !.whispers_sent_today =
        [p \in Players(e) |->
            [t \in DOMAIN e.whispers_sent_today[p] |->
                IF C \in {p, t} THEN e.whispers_sent_today[p][t] ELSE ""]]]

\* The operation recorded in l, run from state e: [s |-> the state it leaves,
\* out |-> what it returns]
Rerun(e, l) ==
    LET call(r) == [s |-> r.s, out |-> r.ok]
        done(d) == [s |-> d, out |-> d.game_over]
        void(d) == [s |-> d, out |-> FALSE]
    IN  CASE l.op = "process_player_action" ->
                 call(process_player_action(Begin(e), l.target, l.action))
          [] l.op = "night_action" ->
                 call(process_player_action(
                          [Begin(e) EXCEPT !.night_target[l.target] = l.action.target],
                          l.target, l.action))
          [] l.op = "register_night_action" ->
                 void(register_night_action(
                          Begin(e), l.target,
                          [type |-> "blackmail", target |-> l.action.target,
                           result |-> "none"]))
          [] l.op = "get_observation" ->
                 LET seen(r) == [s |-> r.s, out |-> r.obs]
                 IN  seen(get_player_observation([e EXCEPT !.hidden_log = <<>>], l.target))
          [] l.op = "advance_turn" -> void(advance_turn(Begin(e)))
          [] l.op = "step_phase" -> done(step_phase(Begin(e)))
          [] l.op = "kill_player" -> void(kill_player(Begin(e), l.target, "killed"))
          [] l.op = "check_game_end" -> done(check_game_end(Begin(e)))

\* C20: whisper confidentiality.  Two runs that differ only in the words of
\* the whispers exchanged between A and B give every third player C the same
\* observations, and the words of a whisper never appear in the messages of a
\* player who neither sent nor received it.  Step by step: (a) a successful
\* whisper of A to B leaves, whatever its words, the same state up to the
\* words C is not party to, and returns the same; (b) every operation run
\* from a state that has such words on record, with those words blanked,
\* leaves the state it leaves otherwise up to those words, and returns the
\* same, the observations given to C included;
\* (c) no line of an observation of C is a whisper C is not party to or
\* carries the words of one.
C20_WhisperConfidential ==
    [][ ( \/ last'.action.action = "whisper"
          \/ last'.op = "get_observation"
          \/ \E p \in Players(env) : env.whispers_sent_today[p] # EmptyDict )
        =>
        LET same(r1, r2, C) ==
                /\ Blanked(r1.s, C) = Blanked(r2.s, C)
                /\ r1.out = r2.out \/ (last'.op = "get_observation" /\ last'.target # C)
            here == [s |-> env', out |-> IF last'.op = "get_observation"
                                         THEN last'.obs ELSE last'.ret]
        IN  /\ ( /\ last'.op = "process_player_action"
                 /\ last'.action.action = "whisper" /\ last'.ret )
               => \A w \in WhisperWords :
                     \A other \in {Rerun(env, [last' EXCEPT !.action.content.words = w])} :
                        \A C \in Players(env) \ {last'.target, last'.action.target} :
                           same(other, here, C)
            /\ \A blanked \in {Blanked(env, C) : C \in Players(env)} \ {env} :
                  \A other \in {Rerun(blanked, last')} :
                     \A C \in Players(env) :
                        Blanked(env, C) = blanked => same(other, here, C)
            /\ \A C \in Players(env) :
                  (last'.op = "get_observation" /\ last'.target = C /\ env.alive[C])
                  => \A i \in DOMAIN last'.obs.messages :
                        LET m == last'.obs.messages[i].content
                        IN  /\ m.msg_type = "whisper"
                                => C = m.sender \/ InList(m.recipients, C)
                            /\ \A A, B \in Players(env) \ {C} :
                                  B \in DOMAIN env.whispers_sent_today[A]
                                  => m.content.words # env.whispers_sent_today[A][B]
        ]_vars

\* Player3 has just been given an observation while a whisper of Player1 to
\* Player2 is the latest message and its words are on record
C20_Witness ==
    /\ last.op = "get_observation" /\ last.target = 3
    /\ "messages" \in DOMAIN last.obs
    /\ 2 \in DOMAIN env.whispers_sent_today[1]
    /\ env.whispers_sent_today[1][2] \in WhisperWords
    /\ \E i \in DOMAIN env.messages : env.messages[i] = WhisperOf(1, 2)

\* C21: the observation that get_observation returns to an alive player of
\* faction MAFIA contains the list of living Mafia teammates, and that list
\* is exactly the set of alive players whose faction is MAFIA.
C21_MafiaMembers ==
    [][ ( /\ last'.op = "get_observation"
          /\ last'.target \in env.alive_players
          /\ env.faction[last'.target] = MAFIA )
        => /\ "mafia_members" \in DOMAIN last'.obs
           /\ {last'.obs.mafia_members[i] : i \in DOMAIN last'.obs.mafia_members}
                 = {p \in env.alive_players : env.faction[p] = MAFIA} ]_vars

\* C22: the end-of-game record is written exactly once.  final_player_roles
\* is empty while game_over is false, is set to every player's role at the
\* moment game_over first becomes true, and after that neither
\* final_player_roles nor winner changes under any further operation.
C22_FinalRecordOnce ==
    [][ /\ ~env.game_over => env.final_player_roles = EmptyDict /\ env.winner = NoFaction
        /\ (~env.game_over /\ env'.game_over)
              => /\ env'.final_player_roles = env'.role
                 /\ env'.winner \in {TOWN, MAFIA}
        /\ env.game_over
              => /\ env'.game_over
                 /\ env'.final_player_roles = env.final_player_roles
                 /\ env'.winner = env.winner ]_vars

\* The game is over and a later kill_player has promoted a Goon: the record
\* still shows the roles of the moment the game ended
C22_Witness ==
    /\ env.game_over
    /\ last.op = "kill_player"
    /\ env.final_player_roles # EmptyDict
    /\ env.final_player_roles # env.role

C24_DiscussionGoesOn ==
    [][ ( /\ setup.count_turns
          /\ last'.op = "step_phase"
          /\ env.phase = DAY_DISCUSSION /\ ~env.game_over
          /\ env.player_on_trial = NoName
          /\ env.consecutive_passes < Cardinality(env.alive_players)
          /\ \E p \in env.alive_players : today.turns[p] < min_discussion_turns )
        => env'.phase = DAY_DISCUSSION ]_vars

\* C25: the pass counter counts consecutive passes only: at any point of a
\* day's discussion it equals the number of accepted pass actions since the
\* most recent accepted non-pass action (speak, accuse, vote, question,
\* predict, whisper) of that day, so that passing ends the discussion only
\* when the last N accepted actions, N the number of alive players, were all
\* passes.  (Stated of the games in which today counts the passes.)
C25_ConsecutivePasses ==
    (setup.count_turns /\ env.phase = DAY_DISCUSSION)
    => env.consecutive_passes = today.passes

\* The step is a call of advance_turn in DAY_DISCUSSION: a direct call, or
\* the call that ends the turn of an accepted pass with nobody on trial (a
\* pass changes neither queue before it)
AdvancesTurn ==
    /\ env.phase = DAY_DISCUSSION
    /\ \/ last'.op = "advance_turn"
       \/ /\ last'.op = "process_player_action"
          /\ last'.action.action = "pass" /\ last'.ret
          /\ env.player_on_trial = NoName

\* C26: advance_turn in DAY_DISCUSSION serves the question queue before the
\* speaker queue: when the question queue is not empty, the turn goes to the
\* questioned player at its head, the turn context records the asker as
\* answering_question_from, that entry leaves the question queue and the
\* speaker queue is unchanged; a player of the speaker queue gets the turn
\* only when the question queue is empty.
C26_QuestionsFirst ==
    [][ AdvancesTurn =>
        /\ env.question_queue # <<>> =>
               /\ env'.current_player_turn = Head(env.question_queue)[2]
               /\ env'.turn_context = Head(env.question_queue)[1]
               /\ env'.question_queue = Tail(env.question_queue)
               /\ env'.speaker_queue = env.speaker_queue
               /\ env'.phase = DAY_DISCUSSION
        /\ env'.speaker_queue # env.speaker_queue => env.question_queue = <<>> ]_vars

\* advance_turn has given the turn to a questioned player while another
\* player was waiting in the speaker queue
C26_Witness ==
    /\ last.op = "advance_turn"
    /\ env.phase = DAY_DISCUSSION
    /\ env.turn_context # NoName
    /\ env.speaker_queue # <<>>
    /\ env.current_player_turn # Head(env.speaker_queue)

\* The question round of a speech of p: p's new targets in the order of the
\* tags, then p, each as the pair (asker, questioned)
QuestionRound(p, a) ==
    LET IsNew(t) == t \notin env.questions_asked_today[p]
        order == SelectSeq(a.content.q, IsNew) \o <<p>>
    IN  [i \in DOMAIN order |-> <<p, order[i]>>]

\* C27: after an accepted speak of player P whose question tags name the new
\* targets T1..Tk in that order, with nobody on trial (and P within the
\* day's three question rounds), the turns that follow go to T1, ..., Tk and
\* then P, each answering P: T1 has the turn with answering_question_from =
\* P, and the rest of the round heads the question queue, before the entries
\* queued earlier; the speaker queue waits unchanged.
C27_QuestionRoundOrder ==
    [][ \A p \in Players(env) :
          ( /\ last'.op = "process_player_action" /\ last'.target = p
            /\ AsksAnew(p, last'.action) /\ last'.ret
            /\ question_speeches[p] < 3
            /\ env.player_on_trial = NoName )
          => /\ env'.current_player_turn = Head(QuestionRound(p, last'.action))[2]
             /\ env'.turn_context = p
             /\ env'.question_queue =
                    Tail(QuestionRound(p, last'.action)) \o env.question_queue
             /\ env'.speaker_queue = env.speaker_queue
             /\ env'.phase = DAY_DISCUSSION ]_vars

\* q is what is left of queue after some players were taken from its front
RestOf(queue, q) ==
    \E n \in 0..Len(queue) : q = SubSeq(queue, n + 1, Len(queue))

\* C28: the speaker queue is filled once per day, when the discussion
\* starts, with the alive players (the first of them gets the turn at once),
\* and is never refilled during the day: within a day it only loses players
\* from its front.  advance_turn called in DAY_DISCUSSION with the question
\* queue and the speaker queue both empty ends the discussion in that call:
\* the phase becomes NIGHT (or GAME_OVER) if nobody is on trial, DEFENSE or
\* FINAL_VOTE if somebody is.
C28_SpeakerQueueOncePerDay ==
    [][ /\ env'.day_count = env.day_count
           => RestOf(env.speaker_queue, env'.speaker_queue)
        /\ env'.day_count # env.day_count
           => /\ env'.day_count = env.day_count + 1
              /\ env'.phase = DAY_DISCUSSION
              /\ Len(env'.speaker_queue) + 1 = Cardinality(env'.alive_players)
              /\ {env'.current_player_turn}
                    \cup {env'.speaker_queue[i] : i \in DOMAIN env'.speaker_queue}
                 = env'.alive_players
        /\ ( /\ AdvancesTurn
             /\ env.question_queue = <<>> /\ env.speaker_queue = <<>> )
           => IF env.player_on_trial = NoName
              THEN env'.phase \in {NIGHT, GAME_OVER}
              ELSE env'.phase \in {DEFENSE, FINAL_VOTE} ]_vars

\* t is an illegal night target for the night actor p: p itself for a Cop, a
\* Godfather or a RoleBlocker, a Mafia player for a Godfather, a dead or
\* unknown player for every actor
IllegalTarget(e, p, t) ==
    /\ t # NoName
    /\ \/ t = p /\ e.role[p] \in {"Cop", "Godfather", "RoleBlocker"}
       \/ /\ e.role[p] = "Godfather"
          /\ t \in Players(e) /\ RoleFaction(e.role[t]) = MAFIA
       \/ t \notin e.alive_players

\* What the hidden log of a night's resolution attributes to an actor
NightEffects ==
    {"roleblocked", "blackmailed", "protected_this_night", "attempting_kill",
     "kill_succeeded", "kill_failed", "successfully_protected",
     "investigation_result"}

\* C29: an illegal night target is a silent no-op: the submission of a night
\* actor that targets itself (Cop, Godfather, RoleBlocker), a Mafia player
\* (Godfather) or a dead or unknown player raises nothing, and in the
\* resolution of that night the actor has no effect (no kill, block,
\* protection or investigation result of the actor), even if the actor had
\* submitted a legal action earlier in the same night.
C29_IllegalTargetNoEffect ==
    [][ /\ ( /\ last'.op = "night_action"
             /\ IllegalTarget(env, last'.target, last'.action.target) )
           => /\ ~env'.raised /\ last'.ret \in BOOLEAN
              /\ env'.memory[last'.target] = {}
        /\ ( /\ ResolvesNight
             /\ last.op = "night_action"
             /\ IllegalTarget(env, last.target, last.action.target) )
           => /\ \A h \in HiddenTail(env') :
                    h.actor = last.target => h.info \notin NightEffects
              /\ last.target \notin DOMAIN env'.night_action_results ]_vars

Investigators(e) == {p \in e.alive_players : e.role[p] \in {"Cop", "Consigliere"}}

\* C30: investigation results are recorded only for investigators that are
\* not roleblocked: a Cop or Consigliere that is the target of a roleblock
\* in a night has no new memory record for that night once the night is
\* resolved, whichever of the investigation and the roleblock was submitted
\* first.  Records are only ever appended, so the investigator must get none
\* from its submission (here the last one before the resolution) and none
\* from the resolution.
C30_BlockedInvestigatorLearnsNothing ==
    [][ \A c \in Investigators(env) :
          ( ResolvesNight /\ Roleblocked(env, c) )
          => /\ (last.op = "night_action" /\ last.target = c) => env.memory[c] = {}
             /\ env'.memory[c] = {} ]_vars

\* p is the target of a blackmail whose actor and target are alive
Blackmailed(e, p) ==
    \E b \in Submitted(e) :
        /\ b.type = "blackmail" /\ b.target = p
        /\ b.actor \in e.alive_players /\ p \in e.alive_players

\* C31: a blackmail applied to player B in the resolution of night N is in
\* force in the discussion of the following day: when step_phase has
\* resolved the night and begun the day, B cannot speak; as long as the day
\* lasts B stays unable to speak, and an accuse or question action of B is
\* rejected; the effect is lifted only when the next day starts.
C31_BlackmailLastsTheDay ==
    [][ \A B \in env'.alive_players :
          /\ ( /\ ResolvesNight /\ Blackmailed(env, B)
               /\ env'.phase = DAY_DISCUSSION )
             => ~can_speak(env', B)
          /\ ( /\ env.phase # NIGHT /\ env'.day_count = env.day_count
               /\ ~env.can_speak_today[B] )
             => ~env'.can_speak_today[B]
          /\ ( /\ last'.op = "process_player_action" /\ last'.target = B
               /\ env.phase = DAY_DISCUSSION /\ ~can_speak(env, B)
               /\ last'.action.action \in {"accuse", "question"} )
             => ~last'.ret ]_vars

\* C32: in the final-vote tally each alive player counts at most once, by
\* the last final vote the player cast in the current trial: after an
\* accepted final vote of p the tally holds p as guilty if the vote was
\* final_guilty, as innocent if it was final_innocent, and not at all if it
\* was abstain (also after an earlier guilty or innocent vote of the trial),
\* the other players' entries being unchanged; the tally is empty when a
\* final vote begins, so that votes of an earlier trial are never counted.
C32_LastFinalVoteCounts ==
    [][ /\ \A p \in env.alive_players :
             ( /\ last'.op = "process_player_action" /\ last'.target = p
               /\ env.phase = FINAL_VOTE /\ last'.ret )
             => /\ \A v \in (DOMAIN env.votes_for_lynch \cup DOMAIN env'.votes_for_lynch) \ {p} :
                      /\ v \in DOMAIN env.votes_for_lynch \cap DOMAIN env'.votes_for_lynch
                      /\ env'.votes_for_lynch[v] = env.votes_for_lynch[v]
                /\ CASE last'.action.vote_type = "final_guilty" ->
                             p \in DOMAIN env'.votes_for_lynch /\ env'.votes_for_lynch[p]
                       [] last'.action.vote_type = "final_innocent" ->
                             p \in DOMAIN env'.votes_for_lynch /\ ~env'.votes_for_lynch[p]
                       [] last'.action.vote_type = "abstain" ->
                             p \notin DOMAIN env'.votes_for_lynch
                       [] OTHER -> FALSE
        /\ (env.phase # FINAL_VOTE /\ env'.phase = FINAL_VOTE)
             => env'.votes_for_lynch = EmptyDict ]_vars

\* The speech content without its accuse and question tags
StripTags(c) == [c EXCEPT !.q = <<>>, !.acc = NoName]

\* C33: for every accepted speak action with content, the public message
\* appended to the message log is the speech content with its tags removed,
\* and no publicly logged speech contains tag markup.
C33_SpeechLoggedWithoutTags ==
    [][ ( /\ last'.op = "process_player_action" /\ last'.ret
          /\ last'.action.action = "speak" /\ last'.action.content.has )
        => /\ \E i \in DOMAIN env'.messages :
                 env'.messages[i] = Speech(last'.target, StripTags(last'.action.content))
           /\ \A i \in DOMAIN env'.messages :
                 env'.messages[i].text = "speech"
                 => env'.messages[i].content = StripTags(env'.messages[i].content) ]_vars

\* C34: the observation given to an alive player whose faction is not MAFIA
\* marks no player with the Mafia tag in player_list and names no Mafia
\* team-mates; the Mafia tag is on a player only when the viewer and the
\* tagged player both have faction MAFIA.
C34_FactionSecrecy ==
    (last.op = "get_observation" /\ last.target \in env.alive_players)
    => /\ env.faction[last.target] # MAFIA
          => /\ \A p \in Players(env) :
                   "Mafia" \notin last.obs.player_list[p].status_tags
             /\ mafia_members(env, last.target) = {}
       /\ \A p \in Players(env) :
             "Mafia" \in last.obs.player_list[p].status_tags
             => env.faction[last.target] = MAFIA /\ env.faction[p] = MAFIA

C34_Witness ==
    /\ last.op = "get_observation" /\ last.target \in env.alive_players
    /\ env.faction[last.target] # MAFIA
    /\ \E p \in env.alive_players : env.faction[p] = MAFIA

\* C35: whenever the phase is DAY_DISCUSSION and current_player_turn is set
\* after an accepted action, an advance of the turn or a phase step, it names
\* a player who exists and is alive, also after speeches whose question tags
\* name dead or unknown players or the speaker.
C35_TurnNamesAlivePlayer ==
    [][ ( /\ \/ last'.op = "process_player_action" /\ last'.ret
             \/ last'.op \in {"advance_turn", "step_phase"}
          /\ env'.phase = DAY_DISCUSSION
          /\ env'.current_player_turn # NoName )
        => env'.current_player_turn \in env'.alive_players ]_vars

\* C36: once a player X is on trial, player_on_trial stays X until the trial
\* is resolved by the final vote; no later accuse action, explicit or
\* embedded in a speech, replaces X.
C36_TrialStaysUntilResolved ==
    [][ (env.player_on_trial # NoName /\ env'.player_on_trial # env.player_on_trial)
        => /\ last'.op = "step_phase"
           /\ env.phase = FINAL_VOTE
           /\ env'.player_on_trial = NoName ]_vars

\* C37: if the game starts with at most one player holding the Godfather
\* role, then at most one alive player has role Godfather, and every
\* player's faction is the faction of the player's current role.
C37_OneGodfather ==
    Cardinality({p \in DOMAIN setup.roles : setup.roles[p] = "Godfather"}) <= 1
    => /\ Cardinality({p \in env.alive_players : env.role[p] = "Godfather"}) <= 1
       /\ \A p \in Players(env) : env.faction[p] = RoleFaction(env.role[p])

\* The only Godfather of the game is dead and a Goon has taken the role,
\* another Goon being alive
C37_Witness ==
    /\ Cardinality({p \in DOMAIN setup.roles : setup.roles[p] = "Godfather"}) = 1
    /\ \E g \in env.dead_players : setup.roles[g] = "Godfather"
    /\ \E p, q \in env.alive_players :
          /\ setup.roles[p] = "Goon" /\ env.role[p] = "Godfather"
          /\ env.role[q] = "Goon"

\* C38: a game that is not over is undecided.  In every state after the
\* first step_phase call has returned (the first day has begun), if game_over
\* is false then some MAFIA player is alive and fewer MAFIA than TOWN players
\* are alive: no kill leaves a decided position without game_over being set.
C38_NotOverIsUndecided ==
    (env.day_count >= 1 /\ ~env.game_over)
    => /\ AliveOf(env, MAFIA) # {}
       /\ Cardinality(AliveOf(env, MAFIA)) < Cardinality(AliveOf(env, TOWN))

\* A player has died since the first day began, and the game goes on
C38_Witness ==
    /\ env.day_count >= 1 /\ ~env.game_over
    /\ env.dead_players # {}
    /\ last.op \in {"step_phase", "kill_player"}
    /\ \E i \in DOMAIN env.messages : env.messages[i].msg_type = "death_announcement"

\* C39: get_observation is read-only.  A call leaves the game state, the
\* message log and the hidden log as they were (it appends no hidden-log
\* entry), so that it never influences when the discussion ends.
C39_ObservationReadOnly ==
    [][ last'.op = "get_observation"
        => /\ env' = [env EXCEPT !.hidden_log = <<>>]
           /\ env'.turn_counts = env.turn_counts ]_vars

RECURSIVE Total(_, _)
\* The sum of f over S
Total(f, S) ==
    IF S = {} THEN 0
    ELSE Total(f, S \ {CHOOSE x \in S : TRUE}) + f[CHOOSE x \in S : TRUE]

\* The most names the question tags of one speech of the game hold
LongestRound ==
    CHOOSE n \in 0..9 :
        /\ \A p \in DOMAIN setup.actions : \A a \in setup.actions[p] :
               Len(a.content.q) <= n
        /\ n = 0 \/ \E p \in DOMAIN setup.actions : \E a \in setup.actions[p] :
                       Len(a.content.q) = n

\* A bound on the turns the day's discussion can still see: the turns queued,
\* and the turns the players can still add to the question queue (a question
\* round is queued at most three times by a player, a question action once
\* for each target a day)
TurnsLeft(e) ==
    Len(e.speaker_queue) + Len(e.question_queue)
    + Total([p \in Players(e) |->
                (3 - Get(e.question_rounds_taken, p, 0)) * (LongestRound + 1)
                + 2 * Cardinality(Players(e) \ e.questions_asked_today[p])],
            Players(e))

\* C40: a day's discussion cannot last forever.  In the driver loop, where
\* every action of the current player is accepted and a dead or unknown
\* current player is skipped with advance_turn, every step taken in the
\* discussion of a game that is not over either leaves DAY_DISCUSSION or
\* brings down the natural number TurnsLeft: the phase leaves DAY_DISCUSSION
\* after finitely many steps, whatever the players send.
C40_DiscussionEnds ==
    [][ (env.phase = DAY_DISCUSSION /\ ~env.game_over)
        => \/ env'.phase # DAY_DISCUSSION
           \/ TurnsLeft(env') < TurnsLeft(env) ]_vars

\* A discussion in which a question round was held and a player was accused
\* has been left
C40_Witness ==
    /\ last.op = "run_simulation"
    /\ env.day_count >= 1
    /\ env.phase \in {DEFENSE, FINAL_VOTE}
    /\ env.player_on_trial # NoName
    /\ \E p \in Players(env) : Get(env.question_rounds_taken, p, 0) > 0

====
